---- MODULE Spec2Model ----
(***************************************************************************)
(* A model of the work-orders dashboard: the tickets page                  *)
(* (pages/tickets_page.py) and the banks periodics page                    *)
(* (pages/banks_peridics_page.py).                                         *)
(*                                                                         *)
(* Text is a sequence of one-character strings, so that strip, lower and   *)
(* substring containment are computed and not assumed.  A cell is what     *)
(* pandas hands to the code: a float NaN, a Python None, a str or a        *)
(* number (kept with its str() form).                                      *)
(***************************************************************************)
EXTENDS Integers, Sequences, FiniteSets, TLC

VARIABLES
  sheet_rows,   \* header detection: the rows of the sheet, top to bottom
  scan_rows,    \* header detection: the scan_rows argument
  header_row,   \* header detection: Ret(the index returned)
  cell,         \* classifiers: the raw cell value given to each classifier
  priority,     \* classifiers: Ret(normalize_priority of the cell)
  status,       \* classifiers: Ret(normalize_status of the cell)
  assigned,     \* classifiers: Ret(normalize_assigned_to of the cell)
  bank_text,    \* classifiers: Ret(to_text_series of the cell)
  completion,   \* classifiers: Ret(normalize_status_cell of the cell)
  blank,        \* classifiers: Ret(_is_blank of the cell)
  columns,      \* column resolver: df.columns, left to right
  fallbacks,    \* column resolver: the fallbacks argument
  found_col,    \* column resolver: Ret(the column returned, or None)
  data,           \* filters: the frame of one ticket sheet, as read
  status_column,   \* filters: the sheet's configured status column
  df_nc,        \* filters: Ret(what filter_not_closed gave)
  df_c,         \* filters: Ret(what filter_closed gave)
  open_g,       \* filters: Ret(count table of open_stacked_chart)
  closed_g,     \* filters: Ret(count table of closed_pie_chart)
  assignees_open_g,    \* filters: Ret(count table of the open assignee chart)
  assignees_closed_g,  \* filters: Ret(count table of the closed assignee chart)
  assignees_open_order,    \* filters: Ret(assignee order of the open chart)
  assignees_closed_order,  \* filters: Ret(assignee order of the closed chart)
  workbook,       \* tickets page: the sheets of the workbook, Ret(frame) or Unset
  pc,             \* tickets page: where the script run is
  data_by_sheet,  \* tickets page: the dict data, sheet name -> frame
  views,          \* tickets page: what the run has rendered, key -> content
  page_error,     \* tickets page: the error the run showed, "" for none
  remote_file,    \* banks page: the workbook on SharePoint
  local_file,     \* banks page: the file at the local path, Ret(workbook) or Unset
  now,            \* banks page: the clock, in seconds
  download_cache, \* banks page: download_banks_excel_cached's entry, Ret(time stored)
  names_cache,    \* banks page: get_visible_sheet_names's entry, Ret(list)
  header_cache,   \* banks page: detect_header_row's entries, sheet -> row
  frame_cache,    \* banks page: read_sheet_with_detected_header's entries
  banks_view,     \* banks page: what the last run showed
  df_raw,         \* completion view: the frame read from the selected sheet
  pies_view,      \* completion view: what the last run showed
  sp_content,     \* download: the content of the file on SharePoint (a version)
  clock,          \* download: the time, in seconds
  tmp_file,       \* download: the file in the temp directory, Ret([content, written])
  excel_cache,    \* download: st.cache_data's entries of download_excel_cached
  last_call       \* download: what the last call of download_excel_cached did

hdrVars == <<sheet_rows, scan_rows, header_row>>
cellVars == <<cell, priority, status, assigned, bank_text, completion, blank>>
colVars == <<columns, fallbacks, found_col>>
filterVars ==
  <<data, status_column, df_nc, df_c, open_g, closed_g, assignees_open_g, assignees_closed_g,
    assignees_open_order, assignees_closed_order>>
pageVars == <<workbook, pc, data_by_sheet, views, page_error>>
banksVars == <<remote_file, local_file, now, download_cache, names_cache,
               header_cache, frame_cache, banks_view>>
piesVars == <<df_raw, pies_view>>
downloadVars == <<sp_content, clock, tmp_file, excel_cache, last_call>>
vars == <<hdrVars, cellVars, colVars, filterVars, pageVars, banksVars, piesVars, downloadVars>>

\* A result variable holds <<>> before its call and <<value>> after it.
Unset == <<>>
Ret(x) == <<x>>

(***************************************************************************)
(* Python values and str methods                                           *)
(***************************************************************************)
NaN == [kind |-> "NaN", txt |-> <<>>]
PyNone == [kind |-> "None", txt |-> <<>>]
T(t) == [kind |-> "str", txt |-> t]
Num(t) == [kind |-> "num", txt |-> t]

\* str(v)
Str(v) ==
  CASE v.kind = "NaN" -> <<"n", "a", "n">>
    [] v.kind = "None" -> <<"N", "o", "n", "e">>
    [] OTHER -> v.txt

Whitespace == {" ", "\t", "\n"}

RECURSIVE LStrip(_)
LStrip(s) == IF s # <<>> /\ Head(s) \in Whitespace THEN LStrip(Tail(s)) ELSE s

RECURSIVE RStrip(_)
RStrip(s) ==
  IF s # <<>> /\ s[Len(s)] \in Whitespace THEN RStrip(SubSeq(s, 1, Len(s) - 1)) ELSE s

\* str.strip()
Strip(s) == RStrip(LStrip(s))

UpperCase == <<"A", "B", "C", "D", "E", "F", "G", "H", "I", "J", "K", "L", "M",
               "N", "O", "P", "Q", "R", "S", "T", "U", "V", "W", "X", "Y", "Z">>
LowerCase == <<"a", "b", "c", "d", "e", "f", "g", "h", "i", "j", "k", "l", "m",
               "n", "o", "p", "q", "r", "s", "t", "u", "v", "w", "x", "y", "z">>

LowerChar(c) ==
  IF \E i \in 1..Len(UpperCase) : UpperCase[i] = c
  THEN LowerCase[CHOOSE i \in 1..Len(UpperCase) : UpperCase[i] = c]
  ELSE c

\* str.lower()
Lower(s) == [i \in 1..Len(s) |-> LowerChar(s[i])]

\* k in s
Contains(s, k) ==
  \E i \in 0..(Len(s) - Len(k)) : SubSeq(s, i + 1, i + Len(k)) = k

\* any(w in s for w in words)
AnyIn(words, s) == \E w \in words : Contains(s, w)

(***************************************************************************)
(* Words of the two pages                                                  *)
(***************************************************************************)
W_nan == <<"n", "a", "n">>
W_none == <<"n", "o", "n", "e">>
W_None == <<"N", "o", "n", "e">>
W_high == <<"h", "i", "g", "h">>
W_medium == <<"m", "e", "d", "i", "u", "m">>
W_low == <<"l", "o", "w">>
W_closed == <<"c", "l", "o", "s", "e", "d">>
W_progress == <<"p", "r", "o", "g", "r", "e", "s", "s">>
W_open == <<"o", "p", "e", "n">>

DONE_WORDS ==
  { <<"d", "o", "n", "e">>,
    <<"c", "o", "m", "p", "l", "e", "t", "e", "d">>,
    <<"c", "o", "m", "p", "l", "e", "t", "e">>,
    <<"o", "k">>,
    <<"y", "e", "s">> }
PENDING_WORDS ==
  { <<"p", "e", "n", "d", "i", "n", "g">>,
    <<"p", "e", "n", "d", "i", "e", "n", "t", "e">>,
    <<"t", "o", " ", "d", "o">>,
    <<"t", "o", "d", "o">>,
    W_open,
    <<"i", "n", " ", "p", "r", "o", "g", "r", "e", "s", "s">> }
NOT_SCHEDULED_WORDS ==
  { <<"n", "o", "t", " ", "s", "c", "h", "e", "d", "u", "l", "e", "d">>,
    <<"n", "/", "a">>,
    <<"n", "a">>,
    <<"t", "b", "d">> }

\* The categories: Python str values; the null category is Python None.
Cat_High == T(<<"H", "i", "g", "h">>)
Cat_Medium == T(<<"M", "e", "d", "i", "u", "m">>)
Cat_Low == T(<<"L", "o", "w">>)
Cat_Closed == T(<<"C", "l", "o", "s", "e", "d">>)
Cat_InProgress == T(<<"I", "n", " ", "P", "r", "o", "g", "r", "e", "s", "s">>)
Cat_Open == T(<<"O", "p", "e", "n">>)
Cat_Other == T(<<"O", "t", "h", "e", "r">>)
Cat_Done == T(<<"D", "o", "n", "e">>)
Cat_Pending == T(<<"P", "e", "n", "d", "i", "n", "g">>)
Cat_NotScheduled == T(<<"N", "o", "t", " ", "S", "c", "h", "e", "d", "u", "l", "e", "d">>)
Null == PyNone

(***************************************************************************)
(* Cell classifiers                                                        *)
(***************************************************************************)
\* mutant of IsBlank: the string form is compared without lowercasing
IsBlank_NoLower(v) ==
  IF v.kind = "None" THEN TRUE
  ELSE IF v.kind = "NaN" THEN TRUE
  ELSE LET s == Strip(Str(v)) IN s = <<>> \/ s \in {W_nan, W_none}

\* banks page: _is_blank(v)
IsBlank(v) ==
  IF v.kind = "None" THEN TRUE
  ELSE IF v.kind = "NaN" THEN TRUE
  ELSE LET s == Strip(Str(v)) IN s = <<>> \/ Lower(s) \in {W_nan, W_none}

\* tickets page: one element of _clean_text(s): astype(str), strip, and the
\* exact replacements "" / "nan" / "None" -> None
CleanText(v) ==
  LET s == Strip(Str(v)) IN
  IF s \in {<<>>, W_nan, W_None} THEN PyNone ELSE T(s)

\* banks page: one element of to_text_series(s)
ToText(v) ==
  LET s == Strip(Str(v)) IN
  IF s \in {<<>>, W_nan, W_None} THEN PyNone ELSE T(s)

\* mutant of NormalizePriority: a text without a keyword is kept as it is
NormalizePriority_KeepsUnmatched(v) ==
  LET raw == CleanText(v) IN
  IF raw = PyNone THEN Null
  ELSE LET vl == Lower(raw.txt) IN
       IF Contains(vl, W_high) THEN Cat_High
       ELSE IF Contains(vl, W_medium) THEN Cat_Medium
       ELSE IF Contains(vl, W_low) THEN Cat_Low
       ELSE raw

\* tickets page: one element of normalize_priority(s)
NormalizePriority(v) ==
  LET raw == CleanText(v) IN
  IF raw = PyNone THEN Null
  ELSE LET vl == Lower(raw.txt) IN
       IF Contains(vl, W_high) THEN Cat_High
       ELSE IF Contains(vl, W_medium) THEN Cat_Medium
       ELSE IF Contains(vl, W_low) THEN Cat_Low
       ELSE Null

\* mutant of NormalizeStatus: "open" is tested before "closed"
NormalizeStatus_OpenFirst(v) ==
  LET raw == CleanText(v) IN
  IF raw = PyNone THEN Null
  ELSE LET vl == Lower(raw.txt) IN
       IF Contains(vl, W_open) THEN Cat_Open
       ELSE IF Contains(vl, W_closed) THEN Cat_Closed
       ELSE IF Contains(vl, W_progress) THEN Cat_InProgress
       ELSE Cat_Other

\* tickets page: one element of normalize_status(s)
NormalizeStatus(v) ==
  LET raw == CleanText(v) IN
  IF raw = PyNone THEN Null
  ELSE LET vl == Lower(raw.txt) IN
       IF Contains(vl, W_closed) THEN Cat_Closed
       ELSE IF Contains(vl, W_progress) THEN Cat_InProgress
       ELSE IF Contains(vl, W_open) THEN Cat_Open
       ELSE Cat_Other

\* tickets page: one element of normalize_assigned_to(s)
NormalizeAssignedTo(v) == CleanText(v)

\* banks page: normalize_status_cell(v)
NormalizeStatusCell(v) ==
  IF IsBlank(v) THEN Null
  ELSE LET s == Lower(Strip(Str(v))) IN
       IF AnyIn(DONE_WORDS, s) THEN Cat_Done
       ELSE IF AnyIn(PENDING_WORDS, s) THEN Cat_Pending
       ELSE IF AnyIn(NOT_SCHEDULED_WORDS, s) THEN Cat_NotScheduled
       ELSE Null

(***************************************************************************)
(* Filters and charts (tickets page)                                       *)
(*                                                                         *)
(* A frame is [cols, rows]: cols the set of column names, rows the         *)
(* sequence of [idx, val]: idx the row's index label, val its cells by     *)
(* column name.                                                            *)
(***************************************************************************)
\* pd.isna(x) for one cell, as dropna and groupby test it
IsNA(x) == x.kind \in {"None", "NaN"}

\* df.iloc[0:0]
NoRows(df) == [cols |-> df.cols, rows |-> <<>>]

\* df.empty
IsEmpty(df) == df.cols = {} \/ df.rows = <<>>

\* lines 205-208 of _prep_common for one row: the Priority column is
\* normalized, or added as None
WithPriority(cols, val) ==
  [c \in cols \cup {"Priority"} |->
     IF c = "Priority"
     THEN IF "Priority" \in cols THEN NormalizePriority(val[c]) ELSE PyNone
     ELSE val[c]]

\* line 210 for one row
WithStatus(val, status_col) == [val EXCEPT ![status_col] = NormalizeStatus(@)]

\* lines 212-215 for one row
WithAssignedTo(val) ==
  [c \in DOMAIN val \cup {"Assigned To"} |->
     IF c = "Assigned To"
     THEN IF "Assigned To" \in DOMAIN val THEN NormalizeAssignedTo(val[c]) ELSE PyNone
     ELSE val[c]]

\* lines 205-215 of _prep_common for one row: the three normalized columns
PrepRow(df, status_col, r) ==
  [idx |-> r.idx,
   val |-> WithAssignedTo(WithStatus(WithPriority(df.cols, r.val), status_col))]

\* mutant of PrepCommon: dropna looks at the status column only
PrepCommon_DropnaStatusOnly(df, status_col) ==
  IF status_col \notin df.cols THEN NoRows(df)
  ELSE LET d == [i \in 1..Len(df.rows) |-> PrepRow(df, status_col, df.rows[i])]
           Classified(r) == ~IsNA(r.val[status_col])
       IN [cols |-> df.cols \cup {"Priority", "Assigned To"},
           rows |-> SelectSeq(d, Classified)]

\* _prep_common(df, status_col)
PrepCommon(df, status_col) ==
  IF status_col \notin df.cols THEN NoRows(df)
  ELSE [cols |-> df.cols \cup {"Priority", "Assigned To"},
        rows |-> SelectSeq([i \in 1..Len(df.rows) |-> PrepRow(df, status_col, df.rows[i])],
                           LAMBDA r : ~IsNA(r.val["Priority"]) /\ ~IsNA(r.val[status_col]))]

\* mutant of PrepArgument: d = df, the columns are normalized in the
\* caller's frame
PrepArgument_InPlace(df, status_col) ==
  IF status_col \notin df.cols THEN df
  ELSE [cols |-> df.cols \cup {"Priority", "Assigned To"},
        rows |-> [i \in 1..Len(df.rows) |-> PrepRow(df, status_col, df.rows[i])]]

\* the frame the caller gave to _prep_common, as the call leaves it: line 203
\* slices it, line 205 takes d = df.copy() and all the rest works on d
PrepArgument(df, status_col) == df

\* what a call gives: a frame, or the exception it raised
Returned(df) == [exc |-> "", df |-> df]
Raised(e) == [exc |-> e, df |-> [cols |-> {}, rows |-> <<>>]]

\* mutant of FilterNotClosed: the mask is left out, every classified row is
\* returned
FilterNotClosed_NoMask(df, status_col) ==
  LET d == PrepCommon(df, status_col)
  IN IF status_col \notin d.cols THEN Raised("KeyError")
     ELSE Returned(d)

\* d[d[status_col] == "Closed"] (closed) or d[d[status_col] != "Closed"] of a
\* prepared frame d; d[status_col] raises KeyError for a frame without that
\* column
Masked(d, status_col, closed) ==
  IF status_col \notin d.cols THEN Raised("KeyError")
  ELSE Returned([cols |-> d.cols,
                 rows |-> SelectSeq(d.rows,
                            LAMBDA r : (r.val[status_col] = Cat_Closed) = closed)])

\* filter_not_closed(df, status_col)
FilterNotClosed(df, status_col) == Masked(PrepCommon(df, status_col), status_col, FALSE)

\* filter_closed(df, status_col)
FilterClosed(df, status_col) == Masked(PrepCommon(df, status_col), status_col, TRUE)

\* df.groupby(keys).size(): the count of each key tuple that occurs; rows
\* with a missing key are left out (groupby's dropna default)
GroupSize(df, keys) ==
  LET Key(r) == [k \in 1..Len(keys) |-> r.val[keys[k]]]
      Valid == {i \in 1..Len(df.rows) :
                  \A k \in 1..Len(keys) : ~IsNA(df.rows[i].val[keys[k]])}
  IN [g \in {Key(df.rows[i]) : i \in Valid} |->
        Cardinality({i \in Valid : Key(df.rows[i]) = g})]

\* the count table a chart draws; <<>> when it shows the empty card instead
NoChart == <<>>

\* mutant of OpenStackedChart: every priority and status pair has an entry,
\* with count 0 for a pair that does not occur
OpenStackedChart_ZeroFilled(df, status_col) ==
  IF IsEmpty(df) THEN NoChart
  ELSE [g \in {<<p, s>> : p \in {Cat_High, Cat_Medium, Cat_Low},
                          s \in {Cat_Open, Cat_InProgress, Cat_Other}} |->
          Cardinality({i \in 1..Len(df.rows) :
                         /\ df.rows[i].val["Priority"] = g[1]
                         /\ df.rows[i].val[status_col] = g[2]})]

\* open_stacked_chart(df, status_col, title): g
OpenStackedChart(df, status_col) ==
  IF IsEmpty(df) THEN NoChart ELSE GroupSize(df, <<"Priority", status_col>>)

\* closed_pie_chart(df, title): g
ClosedPieChart(df) ==
  IF IsEmpty(df) THEN NoChart ELSE GroupSize(df, <<"Priority">>)

\* assigned_to_bars_stacked_by_priority(df_all, title): g
AssignedToBars(df_all) ==
  IF IsEmpty(df_all) THEN NoChart ELSE GroupSize(df_all, <<"Assigned To", "Priority">>)

\* g.groupby("Assigned To")["Count"].sum() for one assignee
RECURSIVE SumCounts(_, _)
SumCounts(g, keys) ==
  IF keys = {} THEN 0
  ELSE LET k == CHOOSE x \in keys : TRUE IN g[k] + SumCounts(g, keys \ {k})

TotalOf(g, a) == SumCounts(g, {k \in DOMAIN g : k[1] = a})

\* the sequences without repeats of the members of a set
Orderings(S) ==
  {s \in [1..Cardinality(S) -> S] : \A i, j \in 1..Cardinality(S) : s[i] = s[j] => i = j}

\* mutant of SortedByTotal: the totals ascend
SortedByTotal_Ascending(g, names) ==
  {s \in Orderings(names) :
     \A i, j \in 1..Len(s) : i < j => TotalOf(g, s[i]) <= TotalOf(g, s[j])}

\* sort_values(ascending=False).index: the default sort kind is not a stable
\* one, so equal totals come out in any order
SortedByTotal(g, names) ==
  {s \in Orderings(names) :
     \A i, j \in 1..Len(s) : i < j => TotalOf(g, s[i]) >= TotalOf(g, s[j])}

\* assigned_to_bars_stacked_by_priority(df_all, title): the lists order can be
AssigneeOrders(df_all) ==
  IF IsEmpty(df_all) THEN {NoChart}
  ELSE SortedByTotal(GroupSize(df_all, <<"Assigned To", "Priority">>),
                     {k[1] : k \in DOMAIN GroupSize(df_all, <<"Assigned To", "Priority">>)})

\* df[["Assigned To", "Priority"]]
AssigneeColumns(df) ==
  [cols |-> {"Assigned To", "Priority"},
   rows |-> [i \in 1..Len(df.rows) |->
               [idx |-> df.rows[i].idx,
                val |-> [c \in {"Assigned To", "Priority"} |-> df.rows[i].val[c]]]]]

\* pd.concat(frames, ignore_index=True) of frames with the same columns
RECURSIVE ConcatRows(_)
ConcatRows(frames) ==
  IF frames = <<>> THEN <<>> ELSE Head(frames).rows \o ConcatRows(Tail(frames))

Concat(frames) ==
  LET rows == ConcatRows(frames) IN
  [cols |-> Head(frames).cols,
   rows |-> [i \in 1..Len(rows) |-> [idx |-> i - 1, val |-> rows[i].val]]]

\* pd.DataFrame()
EmptyFrame == [cols |-> {}, rows |-> <<>>]

\* SHEETS: the sheets in dict order, and each sheet's status_col
SHEETS == <<"Work Orders", "Request", "Complaints">>
StatusColOf(name) == IF name = "Work Orders" THEN "General Status" ELSE "Status"

\* pd.to_datetime(v, errors="coerce") for one cell, Ret(YYYY-MM-DD) or Unset
\* for NaT: a date cell parses, a text of the form YYYY-MM-DD parses, a number
\* is taken as nanoseconds after 1970-01-01; NaN and any other text of the
\* model's sheets do not parse
Digits == {"0", "1", "2", "3", "4", "5", "6", "7", "8", "9"}
IsIsoDate(s) ==
  /\ Len(s) = 10 /\ s[5] = "-" /\ s[8] = "-"
  /\ \A i \in {1, 2, 3, 4, 6, 7, 9, 10} : s[i] \in Digits
ToDatetime(v) ==
  IF v.kind = "date" THEN Ret(v.txt)
  ELSE IF v.kind = "str" /\ IsIsoDate(Strip(v.txt)) THEN Ret(Strip(v.txt))
  ELSE IF v.kind = "num" THEN Ret(<<"1", "9", "7", "0", "-", "0", "1", "-", "0", "1">>)
  ELSE Unset

\* dt.to_period("M").dt.to_timestamp(): the first day of the month
MonthStart(d) == SubSeq(d, 1, 8) \o <<"0", "1">>

\* monthly_trend_chart: the count table g of one sheet, month -> count
TrendOfSheet(df) ==
  LET Parsed == {i \in 1..Len(df.rows) :
                   ToDatetime(df.rows[i].val["Date of the Work"]) # Unset}
      Month(i) == MonthStart(ToDatetime(df.rows[i].val["Date of the Work"])[1])
  IN [m \in {Month(i) : i \in Parsed} |-> Cardinality({i \in Parsed : Month(i) = m})]

(***************************************************************************)
(* Column resolver (banks page)                                            *)
(***************************************************************************)
BANK_FALLBACKS == <<<<"b", "a", "n", "k">>, <<"b", "a", "n", "c", "o">>>>
ADDRESS_FALLBACKS ==
  <<<<"a", "d", "d", "r", "e", "s", "s">>, <<"a", "d", "r", "e", "s", "s", "e">>,
    <<"d", "i", "r", "e", "c", "c", "i", "o", "n">>,
    <<"d", "i", "r", "e", "c", "c", "i", "ó", "n">>, <<"a", "d", "d", "r">>>>

\* any(k in cl for k in fallbacks)
AnyKeywordIn(keys, cl) == \E i \in 1..Len(keys) : Contains(cl, keys[i])

\* mutant of FindRequiredCol: the normalized name cl is returned, not c
RECURSIVE FindRequiredCol_ReturnsNormalized(_, _)
FindRequiredCol_ReturnsNormalized(cols, keys) ==
  IF cols = <<>> THEN PyNone
  ELSE LET c == Head(cols)
           cl == Lower(Strip(Str(c)))
       IN IF AnyKeywordIn(keys, cl) THEN T(cl)
          ELSE FindRequiredCol_ReturnsNormalized(Tail(cols), keys)

\* find_required_col(df, fallbacks), cols = df.columns
RECURSIVE FindRequiredCol(_, _)
FindRequiredCol(cols, keys) ==
  IF cols = <<>> THEN PyNone
  ELSE LET c == Head(cols)
           cl == Lower(Strip(Str(c)))
       IN IF AnyKeywordIn(keys, cl) THEN c
          ELSE FindRequiredCol(Tail(cols), keys)

(***************************************************************************)
(* Header row detection (banks page)                                       *)
(***************************************************************************)
\* [v for v in row if not _is_blank(v)]
RECURSIVE NonBlank(_)
NonBlank(row) ==
  IF row = <<>> THEN <<>>
  ELSE IF IsBlank(Head(row)) THEN NonBlank(Tail(row))
  ELSE <<Head(row)>> \o NonBlank(Tail(row))

\* sum(1 for v in non_blank if isinstance(v, str))
StrLike(non_blank) ==
  Cardinality({i \in 1..Len(non_blank) : non_blank[i].kind = "str"})

\* len(set(str(v).strip() for v in non_blank))
DistinctStr(non_blank) ==
  Cardinality({Strip(Str(non_blank[i])) : i \in 1..Len(non_blank)})

\* score = len(non_blank) * 1.5 + str_like * 2.0 + (distinct / len(non_blank)) * 3.0
\* kept exact as the fraction ScoreNum / ScoreDen
ScoreNum(non_blank) ==
  LET n == Len(non_blank) IN
  3 * n * n + 4 * StrLike(non_blank) * n + 6 * DistinctStr(non_blank)

ScoreDen(non_blank) == 2 * Len(non_blank)

\* score > best_score, best = <<best_i, num, den>>; best_score starts at -1.0
ScoreGreater(non_blank, best) ==
  ScoreNum(non_blank) * best[3] > best[2] * ScoreDen(non_blank)

\* mutant of HeaderStep: the comparison is >= (a tie moves to the later row)
HeaderStep_TieToLater(best, i, row) ==
  LET non_blank == NonBlank(row) IN
  IF Len(non_blank) < 2 THEN best
  ELSE IF ~ScoreGreater(non_blank, best)
          /\ ScoreNum(non_blank) * best[3] # best[2] * ScoreDen(non_blank)
       THEN best
       ELSE <<i, ScoreNum(non_blank), ScoreDen(non_blank)>>

\* the loop body of detect_header_row for row i
HeaderStep(best, i, row) ==
  LET non_blank == NonBlank(row) IN
  IF Len(non_blank) < 2 THEN best
  ELSE IF ScoreGreater(non_blank, best)
       THEN <<i, ScoreNum(non_blank), ScoreDen(non_blank)>>
       ELSE best

RECURSIVE HeaderLoop(_, _, _)
HeaderLoop(rows, i, best) ==
  IF i >= Len(rows) THEN best
  ELSE HeaderLoop(rows, i + 1, HeaderStep(best, i, rows[i + 1]))

\* pd.read_excel(..., header=None, nrows=scan_rows)
ReadPreview(rows, nrows) ==
  SubSeq(rows, 1, IF Len(rows) < nrows THEN Len(rows) ELSE nrows)

\* detect_header_row(xlsx_path, sheet_name, scan_rows) on the sheet's rows;
\* row indices are 0-based as in the code
DetectHeaderRow(rows, nrows) ==
  HeaderLoop(ReadPreview(rows, nrows), 0, <<0, -1, 1>>)[1]

(***************************************************************************)
(* Sheet reading (banks page)                                              *)
(*                                                                         *)
(* A workbook is the sequence of its sheets [title, state, rows]; a frame  *)
(* read from it is [columns, rows]: columns the sequence of labels, rows   *)
(* the sequence of [idx, cells].                                           *)
(***************************************************************************)
\* get_visible_sheet_names(xlsx_path) on the workbook at that path
VisibleSheetNames(wb) ==
  LET visible == SelectSeq(wb, LAMBDA ws : ws.state = "visible")
  IN [k \in 1..Len(visible) |-> visible[k].title]

HasSheet(wb, title) == \E k \in 1..Len(wb) : wb[k].title = title
SheetRows(wb, title) == wb[CHOOSE k \in 1..Len(wb) : wb[k].title = title].rows

Digit(n) == <<"0", "1", "2", "3", "4", "5", "6", "7", "8", "9">>[n + 1]

\* the label pd.read_excel gives column k of the header row hdr: the cell,
\* "Unnamed: k" for an empty one, ".n" added to the n-th repeat of a cell
ColumnLabel(hdr, k) ==
  IF IsNA(hdr[k]) \/ Str(hdr[k]) = <<>>
  THEN <<"U", "n", "n", "a", "m", "e", "d", ":", " ", Digit(k - 1)>>
  ELSE IF \A j \in 1..(k - 1) : hdr[j] # hdr[k] THEN Str(hdr[k])
  ELSE Str(hdr[k]) \o <<".", Digit(Cardinality({j \in 1..(k - 1) : hdr[j] = hdr[k]}))>>

\* dropna(axis=1, how="all"): the columns with a value in some row of body
KeptColumns(body, width) ==
  SelectSeq([k \in 1..width |-> k],
            LAMBDA k : \E i \in 1..Len(body) : ~IsNA(body[i][k]))

\* dropna(axis=0, how="all"): the rows with a value in some kept column
KeptRows(body, kept) ==
  SelectSeq([i \in 1..Len(body) |-> i],
            LAMBDA i : \E j \in 1..Len(kept) : ~IsNA(body[i][kept[j]]))

\* the frame of the kept columns and rows, labels through str(c).strip()
FrameOf(hdr, body, kept, keptRows) ==
  [columns |-> [j \in 1..Len(kept) |-> T(Strip(ColumnLabel(hdr, kept[j])))],
   rows |-> [n \in 1..Len(keptRows) |->
               [idx |-> keptRows[n] - 1,
                cells |-> [j \in 1..Len(kept) |-> body[keptRows[n]][kept[j]]]]]]

DroppedNA(hdr, body) ==
  FrameOf(hdr, body, KeptColumns(body, Len(hdr)),
          KeptRows(body, KeptColumns(body, Len(hdr))))

\* read_sheet_with_detected_header(xlsx_path, sheet_name, header_row) on the
\* sheet's rows; a sheet without a row header_row reads as the empty frame
ReadSheetWithDetectedHeader(rows, hrow) ==
  IF hrow >= Len(rows) THEN [columns |-> <<>>, rows |-> <<>>]
  ELSE DroppedNA(rows[hrow + 1], SubSeq(rows, hrow + 2, Len(rows)))

(***************************************************************************)
(* Specification SpecHeader: detect_header_row applied to a sheet          *)
(***************************************************************************)
MaxSheetRows == 2
SCAN_ROWS == 80

W_a == <<"a">>
W_1 == <<"1">>

\* what a sheet cell can hold: nothing, a text, a number
HeaderCells == {NaN, T(W_a), Num(W_1)}

SheetColumns == <<"A", "B", "C">>

SheetRow == [1..Len(SheetColumns) -> HeaderCells]

SheetsUpTo(n) == UNION {[1..k -> SheetRow] : k \in 0..n}

\* [["Section A"], ["Name","Date","Status"], ["John","2024-01-01","Open"]],
\* the short row padded with NaN as pandas pads it
ExampleSheet ==
  << <<T(<<"S", "e", "c", "t", "i", "o", "n", " ", "A">>), NaN, NaN>>,
     <<T(<<"N", "a", "m", "e">>), T(<<"D", "a", "t", "e">>),
       T(<<"S", "t", "a", "t", "u", "s">>)>>,
     <<T(<<"J", "o", "h", "n">>),
       T(<<"2", "0", "2", "4", "-", "0", "1", "-", "0", "1">>),
       T(<<"O", "p", "e", "n">>)>> >>

W_a_sp == <<" ", "a">>
W_nan_sp == <<" ", "n", "a", "N", " ">>

\* sheets with blank texts, texts equal after strip, and a number and a text
\* with the same str() form
ExtraSheets ==
  { << <<T(W_nan_sp), T(W_a), NaN>>, <<T(W_a), T(W_a_sp), NaN>>,
       <<NaN, T(W_a), T(W_a)>> >>,
    << <<T(W_1), Num(W_1), T(W_None)>>, <<Num(W_1), Num(W_1), T(W_a)>>,
       <<T(W_a), T(W_1), NaN>> >>,
    << <<T(W_1), Num(W_1), T(W_a)>>, <<T(W_a), T(W_a_sp), T(W_1)>>,
       <<T(W_none), T(<<>>), T(W_a)>> >>,
    << <<Num(W_1), T(W_a_sp), T(W_nan)>>, <<T(W_1), T(W_a), NaN>>,
       <<PyNone, T(W_a), T(W_a)>> >> }

InitHeader ==
  /\ sheet_rows \in SheetsUpTo(MaxSheetRows) \cup {ExampleSheet} \cup ExtraSheets
  /\ scan_rows \in {MaxSheetRows - 1, SCAN_ROWS}
  /\ header_row = Unset

CallDetectHeaderRow ==
  /\ header_row = Unset
  /\ header_row' = Ret(DetectHeaderRow(sheet_rows, scan_rows))
  /\ UNCHANGED <<sheet_rows, scan_rows>>


(***************************************************************************)
(* C1                                                                      *)
(***************************************************************************)
C1_NonBlankAt(row) == {k \in 1..Len(row) : ~IsBlank(row[k])}
C1_Count(row) == Cardinality(C1_NonBlankAt(row))
C1_TextCount(row) == Cardinality({k \in C1_NonBlankAt(row) : row[k].kind = "str"})
C1_Distinct(row) == Cardinality({Strip(Str(row[k])) : k \in C1_NonBlankAt(row)})
\* 2 * count * score, for a row with count > 0
C1_Scaled(row) ==
  3 * C1_Count(row) * C1_Count(row) + 4 * C1_TextCount(row) * C1_Count(row)
    + 6 * C1_Distinct(row)
\* score(a) <= score(b), both rows with count > 0
C1_ScoreLeq(a, b) ==
  C1_Scaled(a) * 2 * C1_Count(b) <= C1_Scaled(b) * 2 * C1_Count(a)
\* 0-based indices of the rows inside the scan window
C1_Window ==
  {i \in 0..(Len(sheet_rows) - 1) : i < scan_rows}
C1_Qualifying == {i \in C1_Window : C1_Count(sheet_rows[i + 1]) >= 2}

CellPool ==
  { NaN, PyNone, Num(<<"5">>), Num(<<"0">>),
    T(<<>>),
    T(<<" ", " ">>),
    T(<<"n", "a", "n">>),
    T(<<"N", "a", "N">>),
    T(<<"N", "o", "n", "e">>),
    T(<<"n", "o", "n", "e">>),
    T(<<" ", "N", "O", "N", "E", " ">>),
    T(<<"C", "l", "o", "s", "e", "d", " ", "-", " ", "d", "o", "n", "e">>),
    T(<<"c", "l", "o", "s", "e", "d">>),
    T(<<"r", "e", "-", "o", "p", "e", "n", "e", "d">>),
    T(<<"I", "n", " ", "P", "r", "o", "g", "r", "e", "s", "s", " ", "-", " ", "v", "e", "n", "d", "o", "r">>),
    T(<<"O", "P", "E", "N">>),
    T(<<"c", "l", "o", "s", "e", "d", ",", " ", "w", "a", "s", " ", "o", "p", "e", "n">>),
    T(<<"o", "p", "e", "n", " ", "/", " ", "i", "n", " ", "p", "r", "o", "g", "r", "e", "s", "s">>),
    T(<<"H", "i", "g", "h">>),
    T(<<"M", "E", "D", "I", "U", "M", " ">>),
    T(<<" ", "l", "o", "w">>),
    T(<<"h", "i", "g", "h", "/", "l", "o", "w">>),
    T(<<"m", "e", "d", "i", "u", "m", "-", "l", "o", "w">>),
    T(<<"u", "r", "g", "e", "n", "t">>),
    T(<<"D", "o", "n", "e">>),
    T(<<"P", "e", "n", "d", "i", "n", "g">>),
    T(<<"d", "o", "n", "e", "/", "p", "e", "n", "d", "i", "n", "g">>),
    T(<<"t", "o", "d", "o", " ", "n", "/", "a">>),
    T(<<"N", "o", "t", " ", "S", "c", "h", "e", "d", "u", "l", "e", "d">>),
    T(<<"T", "B", "D">>),
    T(<<"o", "k">>),
    T(<<"0">>),
    T(<<"x">>) }

InitCells ==
  /\ cell \in CellPool
  /\ priority = Unset /\ status = Unset /\ assigned = Unset
  /\ bank_text = Unset /\ completion = Unset /\ blank = Unset

CallNormalizePriority ==
  /\ priority = Unset
  /\ priority' = Ret(NormalizePriority(cell))
  /\ UNCHANGED <<cell, status, assigned, bank_text, completion, blank>>

CallNormalizeStatus ==
  /\ status = Unset
  /\ status' = Ret(NormalizeStatus(cell))
  /\ UNCHANGED <<cell, priority, assigned, bank_text, completion, blank>>

CallNormalizeAssignedTo ==
  /\ assigned = Unset
  /\ assigned' = Ret(NormalizeAssignedTo(cell))
  /\ UNCHANGED <<cell, priority, status, bank_text, completion, blank>>

CallToTextSeries ==
  /\ bank_text = Unset
  /\ bank_text' = Ret(ToText(cell))
  /\ UNCHANGED <<cell, priority, status, assigned, completion, blank>>

CallNormalizeStatusCell ==
  /\ completion = Unset
  /\ completion' = Ret(NormalizeStatusCell(cell))
  /\ UNCHANGED <<cell, priority, status, assigned, bank_text, blank>>

CallIsBlank ==
  /\ blank = Unset
  /\ blank' = Ret(IsBlank(cell))
  /\ UNCHANGED <<cell, priority, status, assigned, bank_text, completion>>

(***************************************************************************)
(* C2                                                                      *)
(***************************************************************************)
\* the rule groups of each vocabulary, in the order the claim gives
C2_TicketStatus ==
  << <<Cat_Closed, {W_closed}>>, <<Cat_InProgress, {W_progress}>>, <<Cat_Open, {W_open}>> >>
C2_Priority ==
  << <<Cat_High, {W_high}>>, <<Cat_Medium, {W_medium}>>, <<Cat_Low, {W_low}>> >>
C2_Completion ==
  << <<Cat_Done, DONE_WORDS>>, <<Cat_Pending, PENDING_WORDS>>,
     <<Cat_NotScheduled, NOT_SCHEDULED_WORDS>> >>
\* the groups with a keyword that occurs in the cell's text, case ignored
C2_Matching(groups, v) ==
  {g \in 1..Len(groups) : \E w \in groups[g][2] : Contains(Lower(Str(v)), w)}
C2_First(groups, v, default) ==
  LET m == C2_Matching(groups, v) IN
  IF m = {} THEN default
  ELSE groups[CHOOSE g \in m : \A h \in m : g <= h][1]
C2_TwoGroups(groups, v) == Cardinality(C2_Matching(groups, v)) >= 2

\* C2: every classifier returns the category of the first group, in the
\* fixed order, one of whose keywords occurs in the cell's text with case
\* ignored (for every cell the classifier's own blank test does not turn into
\* null): status Closed, In Progress, Open, else Other; priority High, Medium,
\* Low; completion Done, Pending, Not Scheduled.  A cell with keywords of two
\* groups gets the earlier group's category; "Closed - done" and "closed" are
\* Closed and "re-opened" is Open.
C2_FirstMatchWins ==
  /\ status # Unset =>
       /\ CleanText(cell) # PyNone => status[1] = C2_First(C2_TicketStatus, cell, Cat_Other)
       /\ C2_TwoGroups(C2_TicketStatus, cell) => status[1] = C2_First(C2_TicketStatus, cell, Cat_Other)
       /\ cell = T(<<"C", "l", "o", "s", "e", "d", " ", "-", " ", "d", "o", "n", "e">>)
            => status[1] = Cat_Closed
       /\ cell = T(W_closed) => status[1] = Cat_Closed
       /\ cell = T(<<"r", "e", "-", "o", "p", "e", "n", "e", "d">>) => status[1] = Cat_Open
  /\ priority # Unset =>
       /\ CleanText(cell) # PyNone => priority[1] = C2_First(C2_Priority, cell, Null)
       /\ C2_TwoGroups(C2_Priority, cell) => priority[1] = C2_First(C2_Priority, cell, Null)
  /\ completion # Unset =>
       /\ ~IsBlank(cell) => completion[1] = C2_First(C2_Completion, cell, Null)
       /\ C2_TwoGroups(C2_Completion, cell) => completion[1] = C2_First(C2_Completion, cell, Null)

\* C2 witness: a cell with the keywords of Closed and of Open was classified
\* by all three classifiers, and its status is Closed.
C2_Witness ==
  /\ C2_TwoGroups(C2_TicketStatus, cell)
  /\ C2_Matching(C2_TicketStatus, cell) = {1, 3}
  /\ status = Ret(Cat_Closed)
  /\ priority # Unset
  /\ completion = Ret(Cat_Pending)

(***************************************************************************)
(* C3                                                                      *)
(***************************************************************************)
\* C3 (the claim as stated): a cell for which is_blank is true is null after
\* ticket priority, status and assigned-to normalization and after the bank /
\* address text normalization; a blank status cell is never Other.
C3_BlankIsNullEverywhere ==
  IsBlank(cell) =>
    /\ priority # Unset => priority[1] = Null
    /\ status # Unset => status[1] = Null
    /\ assigned # Unset => assigned[1] = PyNone
    /\ bank_text # Unset => bank_text[1] = PyNone
    /\ completion # Unset => completion[1] = Null

(***************************************************************************)
(* Specification SpecCols: find_required_col applied to a frame's columns  *)
(***************************************************************************)
MaxCols == 3

Col_BankName == T(<<"B", "a", "n", "k", " ", "N", "a", "m", "e">>)
Col_SiteAddress == T(<<"S", "i", "t", "e", " ", "A", "d", "d", "r", "e", "s", "s">>)
Col_Notes == T(<<"N", "o", "t", "e", "s">>)

ColumnNames ==
  { Col_BankName, Col_SiteAddress, Col_Notes,
    T(<<" ", "B", "A", "N", "C", "O", " ">>), T(<<"D", "i", "r", "e", "c", "c", "i", "ó", "n">>), T(<<"E", "m", "b", "a", "n", "k", "m", "e", "n", "t">>) }

FallbackLists == {BANK_FALLBACKS, ADDRESS_FALLBACKS, <<<<"z", "z", "z">>>>, <<>>}

InitCols ==
  /\ columns \in UNION {[1..k -> ColumnNames] : k \in 0..MaxCols}
  /\ fallbacks \in FallbackLists
  /\ found_col = Unset

CallFindRequiredCol ==
  /\ found_col = Unset
  /\ found_col' = Ret(FindRequiredCol(columns, fallbacks))
  /\ UNCHANGED <<columns, fallbacks>>

(***************************************************************************)
(* C10                                                                     *)
(***************************************************************************)
\* positions of the columns whose trimmed, lowercased name contains a keyword
C10_Hits ==
  {i \in 1..Len(columns) :
     \E k \in 1..Len(fallbacks) : Contains(Lower(Strip(columns[i].txt)), fallbacks[k])}

\* C10: find_required_col returns the first column, left to right, whose
\* trimmed, lowercased name contains a fallback keyword, as the name appears
\* in the frame, and None exactly when no column name contains a keyword;
\* ["Bank Name","Site Address","Notes"] gives "Bank Name" for ["bank","banco"]
\* and None for ["zzz"].
C10_FirstColumnWins ==
  found_col # Unset =>
    /\ IF C10_Hits = {} THEN found_col[1] = PyNone
       ELSE found_col[1] = columns[CHOOSE i \in C10_Hits : \A j \in C10_Hits : i <= j]
    /\ (found_col[1] = PyNone) = (C10_Hits = {})
    /\ columns = <<Col_BankName, Col_SiteAddress, Col_Notes>> =>
         /\ fallbacks = BANK_FALLBACKS => found_col[1] = Col_BankName
         /\ fallbacks = <<<<"z", "z", "z">>>> => found_col[1] = PyNone

\* C10 witness: two columns match, the first of them is not the leftmost
\* column, its name differs from its normalized form, and it was returned.
C10_Witness ==
  /\ found_col # Unset
  /\ Cardinality(C10_Hits) >= 2
  /\ 1 \notin C10_Hits
  /\ found_col[1] \in ColumnNames
  /\ found_col[1].txt # Lower(Strip(found_col[1].txt))

(***************************************************************************)
(* Specification SpecFilters: the filters and the charts' groupings        *)
(* applied to one sheet's frame                                            *)
(***************************************************************************)
MaxTicketRows == 2

PriorityCells == {NaN, T(<<"H", "i", "g", "h">>), T(<<"l", "o", "w", " ">>)}
StatusCells == {NaN, T(<<"C", "l", "o", "s", "e", "d">>), T(<<"r", "e", "-", "o", "p", "e", "n", "e", "d">>), T(<<"n", "o", "n", "e">>)}
AssignedToCells == {NaN, T(<<"A", "n", "n">>)}

ColumnCells(c) ==
  CASE c = "Priority" -> PriorityCells
    [] c = "Status" -> StatusCells
    [] c = "Assigned To" -> AssignedToCells

TicketColumns == {"Priority", "Status", "Assigned To"}

\* the rows pd.read_excel gives for the columns cols
TicketRows(cols) ==
  {v \in [cols -> PriorityCells \cup StatusCells \cup AssignedToCells] :
     \A c \in cols : v[c] \in ColumnCells(c)}

\* the frames of up to n rows, indexed 0, 1, ... as read_excel indexes them
TicketFrames(n) ==
  UNION {
    { [cols |-> cols, rows |-> [i \in 1..k |-> [idx |-> i - 1, val |-> f[i]]]] :
        f \in [1..k -> TicketRows(cols)] } :
    cols \in SUBSET TicketColumns, k \in 0..n }

\* the sheet with Priority = [High, High, Low], Status = [Open, Closed, Open]
ExampleTickets ==
  [cols |-> {"Priority", "Status"},
   rows |-> << [idx |-> 0, val |-> [c \in {"Priority", "Status"} |->
                  IF c = "Priority" THEN T(<<"H", "i", "g", "h">>) ELSE T(<<"O", "p", "e", "n">>)]],
               [idx |-> 1, val |-> [c \in {"Priority", "Status"} |->
                  IF c = "Priority" THEN T(<<"H", "i", "g", "h">>) ELSE T(<<"C", "l", "o", "s", "e", "d">>)]],
               [idx |-> 2, val |-> [c \in {"Priority", "Status"} |->
                  IF c = "Priority" THEN T(<<"L", "o", "w">>) ELSE T(<<"O", "p", "e", "n">>)]] >>]

\* Bob and Ann with one open ticket each, Bob's row first
TiedAssignees ==
  [cols |-> TicketColumns,
   rows |-> << [idx |-> 0, val |-> [c \in TicketColumns |->
                  CASE c = "Assigned To" -> T(<<"B", "o", "b">>)
                    [] c = "Priority" -> T(<<"H", "i", "g", "h">>)
                    [] c = "Status" -> T(<<"O", "p", "e", "n">>)]],
               [idx |-> 1, val |-> [c \in TicketColumns |->
                  CASE c = "Assigned To" -> T(<<"A", "n", "n">>)
                    [] c = "Priority" -> T(<<"L", "o", "w">>)
                    [] c = "Status" -> T(<<"O", "p", "e", "n">>)]] >>]

\* Bob's open ticket first, then two of Ann's
AnnLeads ==
  [cols |-> TicketColumns,
   rows |-> << [idx |-> 0, val |-> [c \in TicketColumns |->
                  CASE c = "Assigned To" -> T(<<"B", "o", "b">>)
                    [] c = "Priority" -> T(<<"H", "i", "g", "h">>)
                    [] c = "Status" -> T(<<"O", "p", "e", "n">>)]],
               [idx |-> 1, val |-> [c \in TicketColumns |->
                  CASE c = "Assigned To" -> T(<<"A", "n", "n">>)
                    [] c = "Priority" -> T(<<"H", "i", "g", "h">>)
                    [] c = "Status" -> T(<<"O", "p", "e", "n">>)]],
               [idx |-> 2, val |-> [c \in TicketColumns |->
                  CASE c = "Assigned To" -> T(<<"A", "n", "n">>)
                    [] c = "Priority" -> T(<<"L", "o", "w">>)
                    [] c = "Status" -> T(<<"I", "n", " ", "P", "r", "o", "g", "r", "e", "s", "s">>)]] >>]

InitFilters ==
  /\ data \in TicketFrames(MaxTicketRows) \cup {ExampleTickets, TiedAssignees, AnnLeads}
  /\ status_column = "Status"
  /\ df_nc = Unset /\ df_c = Unset
  /\ open_g = Unset /\ closed_g = Unset
  /\ assignees_open_g = Unset /\ assignees_closed_g = Unset
  /\ assignees_open_order = Unset /\ assignees_closed_order = Unset

CallFilterNotClosed ==
  /\ df_nc = Unset
  /\ df_nc' = Ret(FilterNotClosed(data, status_column))
  /\ UNCHANGED <<data, status_column, df_c, open_g, closed_g, assignees_open_g, assignees_closed_g,
                 assignees_open_order, assignees_closed_order>>

CallFilterClosed ==
  /\ df_c = Unset
  /\ df_c' = Ret(FilterClosed(data, status_column))
  /\ UNCHANGED <<data, status_column, df_nc, open_g, closed_g, assignees_open_g, assignees_closed_g,
                 assignees_open_order, assignees_closed_order>>

CallOpenStackedChart ==
  /\ df_nc # Unset /\ df_nc[1].exc = "" /\ open_g = Unset
  /\ open_g' = Ret(OpenStackedChart(df_nc[1].df, status_column))
  /\ UNCHANGED <<data, status_column, df_nc, df_c, closed_g, assignees_open_g, assignees_closed_g,
                 assignees_open_order, assignees_closed_order>>

CallClosedPieChart ==
  /\ df_c # Unset /\ df_c[1].exc = "" /\ closed_g = Unset
  /\ closed_g' = Ret(ClosedPieChart(df_c[1].df))
  /\ UNCHANGED <<data, status_column, df_nc, df_c, open_g, assignees_open_g, assignees_closed_g,
                 assignees_open_order, assignees_closed_order>>

\* the assignee chart of one source: df_nc[["Assigned To", "Priority"]]
CallAssigneesOpen ==
  /\ open_g # Unset /\ assignees_open_g = Unset
  /\ assignees_open_g' = Ret(AssignedToBars(AssigneeColumns(df_nc[1].df)))
  /\ \E order \in AssigneeOrders(AssigneeColumns(df_nc[1].df)) :
       assignees_open_order' = Ret(order)
  /\ UNCHANGED <<data, status_column, df_nc, df_c, open_g, closed_g, assignees_closed_g,
                 assignees_closed_order>>

CallAssigneesClosed ==
  /\ closed_g # Unset /\ assignees_closed_g = Unset
  /\ assignees_closed_g' = Ret(AssignedToBars(AssigneeColumns(df_c[1].df)))
  /\ \E order \in AssigneeOrders(AssigneeColumns(df_c[1].df)) :
       assignees_closed_order' = Ret(order)
  /\ UNCHANGED <<data, status_column, df_nc, df_c, open_g, closed_g, assignees_open_g,
                 assignees_open_order>>

(***************************************************************************)
(* C5                                                                      *)
(***************************************************************************)
RECURSIVE C5_SumOver(_, _)
C5_SumOver(g, keys) ==
  IF keys = {} THEN 0
  ELSE LET k == CHOOSE k \in keys : TRUE IN g[k] + C5_SumOver(g, keys \ {k})
\* the sum of all group counts of a count table
C5_Total(g) == C5_SumOver(g, DOMAIN g)

\* C5 (the claim as stated): for each grouping (Priority x Status, Priority
\* alone, Assigned To x Priority) over a filtered subset, the group counts sum
\* to the number of rows of that subset, rows with a blank or missing
\* Assigned To included.
C5_CountsSumToRows ==
  /\ open_g # Unset => C5_Total(open_g[1]) = Len(df_nc[1].df.rows)
  /\ closed_g # Unset => C5_Total(closed_g[1]) = Len(df_c[1].df.rows)
  /\ assignees_open_g # Unset => C5_Total(assignees_open_g[1]) = Len(df_nc[1].df.rows)
  /\ assignees_closed_g # Unset => C5_Total(assignees_closed_g[1]) = Len(df_c[1].df.rows)

(***************************************************************************)
(* C6                                                                      *)
(***************************************************************************)
C6_Idx(f) == {f.rows[i].idx : i \in 1..Len(f.rows)}
\* a row of the frame as read survives normalization: its Priority and its
\* status both normalize to a category
C6_Survives(r) ==
  /\ "Priority" \in data.cols
  /\ NormalizePriority(r.val["Priority"]) # Null
  /\ NormalizeStatus(r.val[status_column]) # Null
C6_Surviving == {i \in 1..Len(data.rows) : C6_Survives(data.rows[i])}

\* C6: for a frame with the status column, filter_not_closed and
\* filter_closed partition the rows that survive normalization: every
\* surviving row is in exactly one subset (and once), the closed subset holds
\* exactly the rows whose normalized status is Closed, the open subset the
\* others (Open, In Progress, Other), and size(open) + size(closed) is at most
\* size(original).
C6_FiltersPartition ==
  (status_column \in data.cols /\ df_nc # Unset /\ df_c # Unset) =>
    LET open == df_nc[1].df
        closed == df_c[1].df
    IN /\ df_nc[1].exc = "" /\ df_c[1].exc = ""
       /\ C6_Idx(open) \cap C6_Idx(closed) = {}
       /\ C6_Idx(open) \cup C6_Idx(closed) = {data.rows[i].idx : i \in C6_Surviving}
       /\ Cardinality(C6_Idx(open)) = Len(open.rows)
       /\ Cardinality(C6_Idx(closed)) = Len(closed.rows)
       /\ C6_Idx(closed) =
            {data.rows[i].idx : i \in
               {j \in C6_Surviving : NormalizeStatus(data.rows[j].val[status_column]) = Cat_Closed}}
       /\ \A i \in 1..Len(closed.rows) : closed.rows[i].val[status_column] = Cat_Closed
       /\ \A i \in 1..Len(open.rows) :
            open.rows[i].val[status_column] \in {Cat_Open, Cat_InProgress, Cat_Other}
       /\ Len(open.rows) + Len(closed.rows) <= Len(data.rows)

\* C6 witness: both filters ran on a frame with a closed row and a row that
\* is not closed, each found in its own subset.
C6_Witness ==
  /\ status_column \in data.cols /\ df_nc # Unset /\ df_c # Unset
  /\ Len(df_nc[1].df.rows) = 1
  /\ Len(df_c[1].df.rows) = 1
  /\ Len(data.rows) = 2

(***************************************************************************)
(* C7                                                                      *)
(***************************************************************************)
C7_InSubsets(r) == r.idx \in C6_Idx(df_nc[1].df) \cup C6_Idx(df_c[1].df)
C7_PriorityNull(r) ==
  "Priority" \notin data.cols \/ NormalizePriority(r.val["Priority"]) = Null
C7_StatusNull(r) == NormalizeStatus(r.val[status_column]) = Null
\* the status cell is not blank for _clean_text and holds none of the
\* keywords closed, progress, open
C7_StatusUnmatched(r) ==
  /\ CleanText(r.val[status_column]) # PyNone
  /\ C2_Matching(C2_TicketStatus, r.val[status_column]) = {}

\* C7: a row whose Priority or whose Status normalizes to null is in neither
\* subset, whatever its other field is; so is every row of a frame without a
\* "Priority" column.  A row whose priority classifies and whose status is
\* not blank but matches no keyword is kept, with status Other.
C7_UnclassifiedDropped ==
  (status_column \in data.cols /\ df_nc # Unset /\ df_c # Unset) =>
    /\ \A i \in 1..Len(data.rows) :
         LET r == data.rows[i] IN
         /\ (C7_PriorityNull(r) \/ C7_StatusNull(r)) => ~C7_InSubsets(r)
         /\ (~C7_PriorityNull(r) /\ C7_StatusUnmatched(r)) =>
              \E k \in 1..Len(df_nc[1].df.rows) :
                /\ df_nc[1].df.rows[k].idx = r.idx
                /\ df_nc[1].df.rows[k].val[status_column] = Cat_Other
    /\ "Priority" \notin data.cols =>
         df_nc[1].df.rows = <<>> /\ df_c[1].df.rows = <<>>

\* C7 witness: both filters ran on a frame that has a row with a null
\* Priority and a classified status, and a row kept with status Other.
C7_Witness ==
  /\ status_column \in data.cols /\ df_nc # Unset /\ df_c # Unset
  /\ "Priority" \in data.cols
  /\ \E i \in 1..Len(data.rows) :
       C7_PriorityNull(data.rows[i]) /\ ~C7_StatusNull(data.rows[i])
  /\ \E i \in 1..Len(data.rows) :
       ~C7_PriorityNull(data.rows[i]) /\ C7_StatusUnmatched(data.rows[i])

(***************************************************************************)
(* C8                                                                      *)
(***************************************************************************)
\* C8 (the claim as stated): for a frame without the configured status
\* column, filter_not_closed and filter_closed return an empty subset and do
\* not raise.
C8_MissingStatusColumnIsEmpty ==
  status_column \notin data.cols =>
    /\ df_nc # Unset => df_nc[1].exc = "" /\ df_nc[1].df.rows = <<>>
    /\ df_c # Unset => df_c[1].exc = "" /\ df_c[1].df.rows = <<>>

(***************************************************************************)
(* Specification SpecTickets: one run of the tickets page script, from the *)
(* sheet loading to the trend chart                                        *)
(***************************************************************************)
DateCell(t) == [kind |-> "date", txt |-> t]

\* a sheet with every column the page reads and a closed and an open ticket
FullSheet(sc) ==
  [cols |-> {"Priority", sc, "Assigned To", "Date of the Work"},
   rows |-> << [idx |-> 0,
                val |-> [c \in {"Priority", sc, "Assigned To", "Date of the Work"} |->
                  CASE c = "Priority" -> T(<<"H", "i", "g", "h">>)
                    [] c = sc -> T(<<"O", "p", "e", "n">>)
                    [] c = "Assigned To" -> T(<<"A", "n", "n">>)
                    [] c = "Date of the Work" -> DateCell(<<"2", "0", "2", "4", "-", "0", "1", "-", "1", "5">>)]],
               [idx |-> 1,
                val |-> [c \in {"Priority", sc, "Assigned To", "Date of the Work"} |->
                  CASE c = "Priority" -> T(<<"l", "o", "w", " ">>)
                    [] c = sc -> T(<<"C", "l", "o", "s", "e", "d">>)
                    [] c = "Assigned To" -> NaN
                    [] c = "Date of the Work" -> T(<<"s", "o", "o", "n">>)]] >>]

\* a sheet without its status column and without the date column
NoStatusSheet ==
  [cols |-> {"Priority", "Assigned To"},
   rows |-> << [idx |-> 0,
                val |-> [c \in {"Priority", "Assigned To"} |->
                  IF c = "Priority" THEN T(<<"M", "e", "d", "i", "u", "m">>) ELSE T(<<"B", "o", "b">>)]] >>]

\* a sheet with headers and no rows
HeadersOnlySheet(sc) == [cols |-> {"Priority", sc, "Assigned To"}, rows |-> <<>>]

\* a sheet with two dates of one month, a date written as text, a number, and
\* a row without a date
DatedSheet(sc) ==
  [cols |-> {"Priority", sc, "Assigned To", "Date of the Work"},
   rows |-> << [idx |-> 0,
                val |-> [c \in {"Priority", sc, "Assigned To", "Date of the Work"} |->
                  CASE c = "Priority" -> T(<<"H", "i", "g", "h">>)
                    [] c = sc -> T(<<"O", "p", "e", "n">>)
                    [] c = "Assigned To" -> T(<<"A", "n", "n">>)
                    [] c = "Date of the Work" -> DateCell(<<"2", "0", "2", "4", "-", "0", "1", "-", "1", "5">>)]],
               [idx |-> 1,
                val |-> [c \in {"Priority", sc, "Assigned To", "Date of the Work"} |->
                  CASE c = "Priority" -> T(<<"L", "o", "w">>)
                    [] c = sc -> T(<<"C", "l", "o", "s", "e", "d">>)
                    [] c = "Assigned To" -> T(<<"B", "o", "b">>)
                    [] c = "Date of the Work" -> DateCell(<<"2", "0", "2", "4", "-", "0", "1", "-", "3", "1">>)]],
               [idx |-> 2,
                val |-> [c \in {"Priority", sc, "Assigned To", "Date of the Work"} |->
                  CASE c = "Priority" -> T(<<"M", "e", "d", "i", "u", "m">>)
                    [] c = sc -> T(<<"I", "n", " ", "P", "r", "o", "g", "r", "e", "s", "s">>)
                    [] c = "Assigned To" -> T(<<"A", "n", "n">>)
                    [] c = "Date of the Work" -> T(<<"2", "0", "2", "4", "-", "0", "2", "-", "0", "1">>)]],
               [idx |-> 3,
                val |-> [c \in {"Priority", sc, "Assigned To", "Date of the Work"} |->
                  CASE c = "Priority" -> T(<<"H", "i", "g", "h">>)
                    [] c = sc -> T(<<"C", "l", "o", "s", "e", "d">>)
                    [] c = "Assigned To" -> T(<<"A", "n", "n">>)
                    [] c = "Date of the Work" -> Num(<<"5">>)]],
               [idx |-> 4,
                val |-> [c \in {"Priority", sc, "Assigned To", "Date of the Work"} |->
                  CASE c = "Priority" -> T(<<"L", "o", "w">>)
                    [] c = sc -> T(<<"O", "p", "e", "n">>)
                    [] c = "Assigned To" -> T(<<"B", "o", "b">>)
                    [] c = "Date of the Work" -> NaN]] >>]

\* what the workbook can hold for a sheet; Unset: the sheet is not there or
\* cannot be read
SheetContents(name) ==
  { Unset, Ret(FullSheet(StatusColOf(name))), Ret(NoStatusSheet),
    Ret(HeadersOnlySheet(StatusColOf(name))), Ret(DatedSheet(StatusColOf(name))) }

SheetNames == {SHEETS[i] : i \in 1..Len(SHEETS)}

At(step, i) == [at |-> step, i |-> i]

InitTickets ==
  /\ workbook \in {w \in [SheetNames -> UNION {SheetContents(n) : n \in SheetNames}] :
                     \A n \in SheetNames : w[n] \in SheetContents(n)}
  /\ pc = At("load", 1)
  /\ data_by_sheet = <<>>
  /\ views = <<>>
  /\ page_error = ""

\* f with key k set to v
Put(f, k, v) == [x \in DOMAIN f \cup {k} |-> IF x = k THEN v ELSE f[x]]

\* mutant of LoadSheet: a sheet that cannot be read is loaded as an empty
\* frame and the run goes on
LoadSheet_EmptyOnError ==
  /\ pc.at = "load"
  /\ data_by_sheet' = Put(data_by_sheet, SHEETS[pc.i],
                          IF workbook[SHEETS[pc.i]] = Unset THEN EmptyFrame
                          ELSE workbook[SHEETS[pc.i]][1])
  /\ pc' = IF pc.i < Len(SHEETS) THEN At("load", pc.i + 1) ELSE At("open_tab", 1)
  /\ UNCHANGED <<workbook, views, page_error>>

\* lines 359-365, one turn of the loop: pd.read_excel raises for a sheet that
\* is not there, and the except branch shows the error and stops the run
LoadSheet ==
  /\ pc.at = "load"
  /\ LET name == SHEETS[pc.i] IN
     IF workbook[name] = Unset
     THEN /\ page_error' = "Could not read Excel sheets"
          /\ pc' = At("stopped", 0)
          /\ UNCHANGED <<data_by_sheet, views>>
     ELSE /\ data_by_sheet' = Put(data_by_sheet, name, workbook[name][1])
          /\ pc' = IF pc.i < Len(SHEETS) THEN At("load", pc.i + 1) ELSE At("open_tab", 1)
          /\ UNCHANGED <<views, page_error>>
  /\ UNCHANGED workbook

\* the run ends with the exception e uncaught
Crash(e) ==
  /\ page_error' = e
  /\ pc' = At("crashed", 0)
  /\ UNCHANGED <<workbook, data_by_sheet, views>>

Advance(step, next) ==
  pc' = IF pc.i < Len(SHEETS) THEN At(step, pc.i + 1) ELSE At(next, 1)

\* lines 380-387, one turn of the loop
OpenTabSheet ==
  /\ pc.at = "open_tab"
  /\ LET name == SHEETS[pc.i]
         r == FilterNotClosed(data_by_sheet[name], StatusColOf(name))
     IN IF r.exc # "" THEN Crash(r.exc)
        ELSE /\ views' = Put(views, <<"open", name>>,
                             OpenStackedChart(r.df, StatusColOf(name)))
             /\ Advance("open_tab", "closed_tab")
             /\ data_by_sheet' = [data_by_sheet EXCEPT
                                    ![name] = PrepArgument(@, StatusColOf(name))]
             /\ UNCHANGED <<workbook, page_error>>

\* lines 389-396, one turn of the loop
ClosedTabSheet ==
  /\ pc.at = "closed_tab"
  /\ LET name == SHEETS[pc.i]
         r == FilterClosed(data_by_sheet[name], StatusColOf(name))
     IN IF r.exc # "" THEN Crash(r.exc)
        ELSE /\ views' = Put(views, <<"closed", name>>, ClosedPieChart(r.df))
             /\ Advance("closed_tab", "tables")
             /\ data_by_sheet' = [data_by_sheet EXCEPT
                                    ![name] = PrepArgument(@, StatusColOf(name))]
             /\ UNCHANGED <<workbook, page_error>>

\* lines 398-407, one turn of the loop: the table of the rows, or the notice
TablesSheet ==
  /\ pc.at = "tables"
  /\ LET name == SHEETS[pc.i]
         r == FilterNotClosed(data_by_sheet[name], StatusColOf(name))
     IN IF r.exc # "" THEN Crash(r.exc)
        ELSE /\ views' = Put(views, <<"table", name>>, r.df.rows)
             /\ Advance("tables", "assignees_open")
             /\ data_by_sheet' = [data_by_sheet EXCEPT
                                    ![name] = PrepArgument(@, StatusColOf(name))]
             /\ UNCHANGED <<workbook, page_error>>

\* the sources a multiselect gives: sheets in the order of the options
Selected(names, chosen) == SelectSeq(names, LAMBDA n : n \in chosen)

\* filter_closed (closed) or filter_not_closed of every loaded sheet
Filtered(closed) ==
  [name \in DOMAIN data_by_sheet |->
     IF closed THEN FilterClosed(data_by_sheet[name], StatusColOf(name))
     ELSE FilterNotClosed(data_by_sheet[name], StatusColOf(name))]

\* the loaded frames after the filter calls on the chosen sheets
Prepared(chosen) ==
  [name \in DOMAIN data_by_sheet |->
     IF name \in chosen THEN PrepArgument(data_by_sheet[name], StatusColOf(name))
     ELSE data_by_sheet[name]]

\* lines 423-430 and 441-448: the filtered frames r of the sources, each cut
\* to its assignee columns, the empty ones left out
Combined(sources, r) ==
  LET kept == SelectSeq(sources, LAMBDA name :
                          /\ r[name].exc = ""
                          /\ ~IsEmpty(r[name].df)
                          /\ "Assigned To" \in r[name].df.cols)
  IN [i \in 1..Len(kept) |-> AssigneeColumns(r[kept[i]].df)]

\* the first exception the filters of the sources raised, "" for none
FirstRaise(sources, r) ==
  LET raising == SelectSeq(sources, LAMBDA name : r[name].exc # "")
  IN IF raising = <<>> THEN "" ELSE r[Head(raising)].exc

AssigneesChart(sources, r) ==
  LET combined == Combined(sources, r) IN
  AssignedToBars(IF combined = <<>> THEN EmptyFrame ELSE Concat(combined))

\* lines 415-431
AssigneesOpenTab ==
  /\ pc.at = "assignees_open"
  /\ \E chosen \in SUBSET SheetNames :
       LET sources == Selected(SHEETS, chosen)
           r == Filtered(FALSE)
       IN IF FirstRaise(sources, r) # "" THEN Crash(FirstRaise(sources, r))
          ELSE /\ views' = Put(views, <<"assignees_open", chosen>>,
                               AssigneesChart(sources, r))
               /\ pc' = At("assignees_closed", 1)
               /\ data_by_sheet' = Prepared(chosen)
               /\ UNCHANGED <<workbook, page_error>>

\* lines 433-449
AssigneesClosedTab ==
  /\ pc.at = "assignees_closed"
  /\ \E chosen \in SUBSET SheetNames :
       LET sources == Selected(SHEETS, chosen)
           r == Filtered(TRUE)
       IN IF FirstRaise(sources, r) # "" THEN Crash(FirstRaise(sources, r))
          ELSE /\ views' = Put(views, <<"assignees_closed", chosen>>,
                               AssigneesChart(sources, r))
               /\ pc' = At("trend", 1)
               /\ data_by_sheet' = Prepared(chosen)
               /\ UNCHANGED <<workbook, page_error>>

\* mutant of TrendChart: the dates are parsed and the rows dropped in the
\* loaded frames themselves, not in a copy
TrendChart_InPlace ==
  /\ pc.at = "trend"
  /\ LET with == {n \in SheetNames : "Date of the Work" \in data_by_sheet[n].cols} IN
     /\ views' = IF with = {} THEN views
                 ELSE Put(views, <<"trend", with>>,
                          [n \in with |-> TrendOfSheet(data_by_sheet[n])])
     /\ data_by_sheet' =
          [n \in SheetNames |->
             IF n \in with
             THEN [cols |-> data_by_sheet[n].cols,
                   rows |-> SelectSeq(data_by_sheet[n].rows,
                              LAMBDA r : ToDatetime(r.val["Date of the Work"]) # Unset)]
             ELSE data_by_sheet[n]]
  /\ pc' = At("done", 0)
  /\ UNCHANGED <<workbook, page_error>>

\* monthly_trend_chart(data): one count table for each sheet with the date
\* column, computed on a copy of its frame; no chart when no sheet has it
TrendChart ==
  /\ pc.at = "trend"
  /\ LET with == {n \in SheetNames : "Date of the Work" \in data_by_sheet[n].cols} IN
     views' = IF with = {} THEN views
              ELSE Put(views, <<"trend", with>>, [n \in with |-> TrendOfSheet(data_by_sheet[n])])
  /\ pc' = At("done", 0)
  /\ UNCHANGED <<workbook, data_by_sheet, page_error>>

(***************************************************************************)
(* C9: a sheet that is absent or cannot be read                            *)
(***************************************************************************)
C9_Running == pc.at # "idle"
C9_Absent == {n \in SheetNames : workbook[n] = Unset}
C9_Finished == pc.at \in {"done", "stopped", "crashed"}

\* the sheets that are there have every column the page reads
C9_OthersComplete ==
  \A n \in SheetNames \ C9_Absent : workbook[n] = Ret(FullSheet(StatusColOf(n)))

\* C9, as stated: when one of the three configured sheets is absent from
\* the workbook, the run is not aborted and the open and closed charts of
\* the remaining sheets are produced.
C9_OtherSheetsStillRendered ==
  (C9_Running /\ C9_Finished /\ C9_Absent # {} /\ C9_OthersComplete) =>
    /\ pc.at = "done"
    /\ \A n \in SheetNames \ C9_Absent :
         <<"open", n>> \in DOMAIN views /\ <<"closed", n>> \in DOMAIN views

\* C9, amended: when any of the three configured sheets is absent or cannot
\* be read, the run never gets past the loading: it renders no view of any
\* sheet, and it ends stopped with the error "Could not read Excel sheets".
C9_AbsentSheetStopsRun ==
  (C9_Running /\ C9_Absent # {}) =>
    /\ views = <<>>
    /\ pc.at \in {"load", "stopped"}
    /\ pc.at = "stopped" => page_error = "Could not read Excel sheets"

\* the last sheet is absent, the two before it were loaded, the run stopped
C9_Witness ==
  /\ C9_Running
  /\ C9_Absent = {"Complaints"}
  /\ C9_OthersComplete
  /\ DOMAIN data_by_sheet = {"Work Orders", "Request"}
  /\ pc.at = "stopped"

(***************************************************************************)
(* Specification SpecBanks: runs of the banks page script against the      *)
(* workbook on SharePoint, the file on disk and the st.cache_data caches   *)
(***************************************************************************)
MaxTicks == 4
BANKS_REFRESH_SECONDS == 3 * 60 * 60

TaskSheet ==
  << <<T(<<"B", "a", "n", "k">>), T(<<"A", "d", "d", "r", "e", "s", "s">>), T(<<"J", "a", "n">>)>>,
     <<T(<<"R", "B", "C">>), T(<<"1", " ", "M", "a", "i", "n", " ", "S", "t">>), T(<<"d", "o", "n", "e">>)>>,
     <<T(<<"T", "D">>), T(<<"2", " ", "E", "l", "m", " ", "S", "t">>), NaN>> >>

\* the same sheet with a title row put above the header
TaskSheetWithTitle ==
  << <<T(<<"B", "a", "n", "k", "s", " ", "2", "0", "2", "6">>), NaN, NaN>>,
     <<T(<<"B", "a", "n", "k">>), T(<<"A", "d", "d", "r", "e", "s", "s">>), T(<<"J", "a", "n">>)>>,
     <<T(<<"R", "B", "C">>), T(<<"1", " ", "M", "a", "i", "n", " ", "S", "t">>), T(<<"p", "e", "n", "d", "i", "n", "g">>)>>,
     <<T(<<"T", "D">>), T(<<"2", " ", "E", "l", "m", " ", "S", "t">>), T(<<"d", "o", "n", "e">>)>> >>

OtherSheet ==
  << <<T(<<" ", "B", "a", "n", "c", "o", " ">>), T(<<"S", "i", "t", "e", " ", "A", "d", "d", "r", "e", "s", "s">>), NaN>>,
     <<T(<<"B", "M", "O">>), T(<<"3", " ", "O", "a", "k", " ", "A", "v", "e">>), NaN>> >>

Sheet(title, state, rows) == [title |-> title, state |-> state, rows |-> rows]

\* the versions of the workbook: the first one, one with the header moved
\* and cells edited, one with a sheet shown and another gone
Versions ==
  { << Sheet("2026", "visible", TaskSheet), Sheet("Old", "hidden", OtherSheet) >>,
    << Sheet("2026", "visible", TaskSheetWithTitle), Sheet("Old", "hidden", OtherSheet) >>,
    << Sheet("Q2", "visible", OtherSheet), Sheet("2026", "visible", TaskSheet) >>,
    << Sheet("Old", "hidden", OtherSheet) >> }

NoView == [kind |-> "none"]
ErrorView(msg) == [kind |-> "error", msg |-> msg]
ExceptionView(e) == [kind |-> "exception", msg |-> e]
FrameView(names, sheet, hrow, df) ==
  [kind |-> IF df.columns = <<>> \/ df.rows = <<>> THEN "info" ELSE "frame",
   visible_sheets |-> names, sheet |-> sheet, header_row |-> hrow, df_raw |-> df]

InitBanks ==
  /\ remote_file \in Versions
  /\ local_file = Unset
  /\ now = 0
  /\ download_cache = Unset
  /\ names_cache = Unset
  /\ header_cache = <<>>
  /\ frame_cache = <<>>
  /\ banks_view = NoView

\* the workbook on SharePoint is replaced by another version
EditRemote ==
  /\ remote_file # <<>>
  /\ remote_file' \in Versions \ {remote_file}
  /\ UNCHANGED <<local_file, now, download_cache, names_cache, header_cache,
                 frame_cache, banks_view>>

\* a third of the refresh period passes
Tick ==
  /\ remote_file # <<>>
  /\ now < MaxTicks * (BANKS_REFRESH_SECONDS \div 3)
  /\ now' = now + BANKS_REFRESH_SECONDS \div 3
  /\ UNCHANGED <<remote_file, local_file, download_cache, names_cache, header_cache,
                 frame_cache, banks_view>>

\* st.cache_data(ttl=BANKS_REFRESH_SECONDS): no entry, or the entry is as
\* old as the ttl
DownloadExpired ==
  download_cache = Unset \/ now - download_cache[1] >= BANKS_REFRESH_SECONDS

\* line 309 on, with df_raw read or taken from the cache
BanksShow(names, sheet, hrow, df) ==
  /\ frame_cache' = Put(frame_cache, <<sheet, hrow>>, df)
  /\ banks_view' = FrameView(names, sheet, hrow, df)

\* line 309: read_sheet_with_detected_header through its cache, keyed by
\* path, sheet and header row; pd.read_excel raises for a sheet the file
\* does not have
BanksRead(file, names, sheet, hrow) ==
  /\ header_cache' = Put(header_cache, sheet, hrow)
  /\ IF <<sheet, hrow>> \in DOMAIN frame_cache
     THEN BanksShow(names, sheet, hrow, frame_cache[<<sheet, hrow>>])
     ELSE IF ~HasSheet(file, sheet)
     THEN banks_view' = ExceptionView("ValueError") /\ UNCHANGED frame_cache
     ELSE BanksShow(names, sheet, hrow,
                    ReadSheetWithDetectedHeader(SheetRows(file, sheet), hrow))

\* line 308: detect_header_row through its cache, keyed by path and sheet
BanksDetect(file, names, sheet) ==
  IF sheet \in DOMAIN header_cache
  THEN BanksRead(file, names, sheet, header_cache[sheet])
  ELSE IF ~HasSheet(file, sheet)
  THEN banks_view' = ExceptionView("ValueError") /\ UNCHANGED <<header_cache, frame_cache>>
  ELSE BanksRead(file, names, sheet, DetectHeaderRow(SheetRows(file, sheet), SCAN_ROWS))

\* lines 302-306: the stop for no visible sheet, and the selectbox
BanksSelect(file, names) ==
  /\ names_cache' = Ret(names)
  /\ IF names = <<>>
     THEN /\ banks_view' = ErrorView("No visible sheets found.")
          /\ UNCHANGED <<header_cache, frame_cache>>
     ELSE \E k \in 1..Len(names) : BanksDetect(file, names, names[k])

\* line 301: get_visible_sheet_names through its cache, keyed by the path
BanksSheets(file) ==
  BanksSelect(file, IF names_cache = Unset THEN VisibleSheetNames(file)
                    ELSE names_cache[1])

\* one run of the script, lines 286-313: the download through its cache
\* writes the workbook to the local path, or raises and the run stops
RunBanksPage ==
  /\ remote_file # <<>>
  /\ IF DownloadExpired
     THEN \/ /\ local_file' = Ret(remote_file)
             /\ download_cache' = Ret(now)
             /\ BanksSheets(remote_file)
          \/ /\ banks_view' = ErrorView("RuntimeError")
             /\ UNCHANGED <<local_file, download_cache, names_cache, header_cache,
                            frame_cache>>
     ELSE /\ UNCHANGED <<local_file, download_cache>>
          /\ BanksSheets(local_file[1])
  /\ UNCHANGED <<remote_file, now>>

(***************************************************************************)
(* C4: the banks page after the download is refreshed                      *)
(***************************************************************************)
C4_ShowsSheet == banks_view.kind \in {"frame", "info"}

\* what load produces for a sheet of the workbook on disk
C4_Load(sheet) ==
  ReadSheetWithDetectedHeader(
    SheetRows(local_file[1], sheet),
    DetectHeaderRow(SheetRows(local_file[1], sheet), SCAN_ROWS))

\* C4: whenever a run has shown a sheet, the sheet list, the header row and
\* the frame it showed are the ones computed from the workbook now on disk.
C4_ShownFrameIsCurrent ==
  C4_ShowsSheet =>
    /\ local_file # Unset
    /\ banks_view.visible_sheets = VisibleSheetNames(local_file[1])
    /\ HasSheet(local_file[1], banks_view.sheet)
    /\ banks_view.header_row =
         DetectHeaderRow(SheetRows(local_file[1], banks_view.sheet), SCAN_ROWS)
    /\ banks_view.df_raw = C4_Load(banks_view.sheet)

(***************************************************************************)
(* C11: what is_blank calls blank                                          *)
(***************************************************************************)
\* the string form of the cell after trimming and lowercasing
C11_Form == Lower(Strip(Str(cell)))

C11_BlankByDefinition ==
  \/ cell.kind = "None"
  \/ cell.kind = "NaN"
  \/ C11_Form \in {<<>>, W_nan, W_none}

\* C11: is_blank returns true exactly when the value is None, a NaN float,
\* or has a string form that is "", "nan" or "none" after trimming and
\* lowercasing; it returns false for every other value, "0" and the numbers
\* among them, and it always returns a boolean.
C11_IsBlankExact ==
  blank # Unset =>
    /\ blank[1] \in BOOLEAN
    /\ blank[1] = C11_BlankByDefinition
    /\ (cell \in {T(<<"0">>), Num(<<"0">>), Num(<<"5">>)}) => blank[1] = FALSE

\* a text that is blank only after trimming and lowercasing
C11_Witness ==
  /\ cell = T(<<" ", "N", "O", "N", "E", " ">>)
  /\ blank = Ret(TRUE)

(***************************************************************************)
(* C12: the classifiers are total and stay in their vocabulary             *)
(***************************************************************************)
\* C12: for every cell, empty text, number and null included, each
\* classifier returns a value: normalize_priority one of High, Medium, Low
\* and null, normalize_status one of Open, In Progress, Closed, Other and
\* null, normalize_status_cell one of Done, Pending, Not Scheduled and null.
C12_ClosedVocabulary ==
  /\ priority # Unset => priority[1] \in {Cat_High, Cat_Medium, Cat_Low, Null}
  /\ status # Unset =>
       status[1] \in {Cat_Open, Cat_InProgress, Cat_Closed, Cat_Other, Null}
  /\ completion # Unset =>
       completion[1] \in {Cat_Done, Cat_Pending, Cat_NotScheduled, Null}

\* a number went through the three classifiers
C12_Witness ==
  /\ cell = Num(<<"5">>)
  /\ priority = Ret(Null)
  /\ status = Ret(Cat_Other)
  /\ completion = Ret(Null)

(***************************************************************************)
(* C13: the Priority x Status grouping                                     *)
(***************************************************************************)
\* the (priority, status) pairs of the rows of a prepared frame
C13_Pairs(f) ==
  {<<f.rows[i].val["Priority"], f.rows[i].val[status_column]>> : i \in 1..Len(f.rows)}
C13_Count(f, g) ==
  Cardinality({i \in 1..Len(f.rows) :
                 <<f.rows[i].val["Priority"], f.rows[i].val[status_column]>> = g})
C13_Priorities(f) == {<<f.rows[i].val["Priority"]>> : i \in 1..Len(f.rows)}

\* the pairs that occur in the classified rows of the sheet
C13_ClassifiedPairs ==
  {<<NormalizePriority(data.rows[i].val["Priority"]),
     NormalizeStatus(data.rows[i].val[status_column])>> : i \in C6_Surviving}

\* C13, as stated: the Priority x Status grouping of the sheet has an entry
\* for every (priority, status) pair that occurs in the classified rows.
C13_EveryPairGrouped ==
  (status_column \in data.cols /\ open_g # Unset) =>
    DOMAIN open_g[1] = C13_ClassifiedPairs

\* C13, amended: the Priority x Status grouping is taken over the open
\* subset: it has one entry, with the exact row count, for every pair that
\* occurs among the classified rows that are not Closed, and no other entry;
\* the closed rows are grouped by priority alone.  For the 3-row sheet the
\* open groups are {(High,Open):1, (Low,Open):1}, the closed groups
\* {High:1}, the open subset has 2 rows and the closed subset 1.
C13_OpenPairsGrouped ==
  /\ (open_g # Unset /\ ~IsEmpty(df_nc[1].df)) =>
       /\ DOMAIN open_g[1] = C13_Pairs(df_nc[1].df)
       /\ DOMAIN open_g[1] = {g \in C13_ClassifiedPairs : g[2] # Cat_Closed}
       /\ \A g \in DOMAIN open_g[1] :
            open_g[1][g] = C13_Count(df_nc[1].df, g) /\ open_g[1][g] >= 1
  /\ (closed_g # Unset /\ ~IsEmpty(df_c[1].df)) =>
       /\ DOMAIN closed_g[1] = C13_Priorities(df_c[1].df)
       /\ \A g \in DOMAIN closed_g[1] : closed_g[1][g] >= 1
  /\ data = ExampleTickets =>
       /\ df_nc # Unset => Len(df_nc[1].df.rows) = 2
       /\ df_c # Unset => Len(df_c[1].df.rows) = 1
       /\ open_g # Unset =>
            /\ DOMAIN open_g[1] = {<<Cat_High, Cat_Open>>, <<Cat_Low, Cat_Open>>}
            /\ \A g \in DOMAIN open_g[1] : open_g[1][g] = 1
       /\ closed_g # Unset =>
            /\ DOMAIN closed_g[1] = {<<Cat_High>>}
            /\ closed_g[1][<<Cat_High>>] = 1

\* both charts of the 3-row sheet are drawn
C13_Witness ==
  /\ data = ExampleTickets
  /\ open_g # Unset /\ closed_g # Unset
  /\ Len(df_nc[1].df.rows) = 2 /\ Len(df_c[1].df.rows) = 1

(***************************************************************************)
(* C14: the order of the assignees                                         *)
(***************************************************************************)
\* the rows the open assignee chart is drawn from
C14_Rows == df_nc[1].df.rows
C14_Assignees == {C14_Rows[i].val["Assigned To"] : i \in 1..Len(C14_Rows)} \ {PyNone}
C14_Total(a) == Cardinality({i \in 1..Len(C14_Rows) : C14_Rows[i].val["Assigned To"] = a})
C14_First(a) == CHOOSE i \in 1..Len(C14_Rows) :
                  /\ C14_Rows[i].val["Assigned To"] = a
                  /\ \A j \in 1..(i - 1) : C14_Rows[j].val["Assigned To"] # a
C14_Order == assignees_open_order[1]

\* C14, as stated: the totals descend along the order, and assignees with
\* equal totals are in the order of their first rows.
C14_TiesByFirstAppearance ==
  assignees_open_order # Unset =>
    \A i, j \in 1..Len(C14_Order) :
      i < j =>
        /\ C14_Total(C14_Order[i]) >= C14_Total(C14_Order[j])
        /\ C14_Total(C14_Order[i]) = C14_Total(C14_Order[j]) =>
             C14_First(C14_Order[i]) < C14_First(C14_Order[j])

\* C14, amended: the order lists every assignee of the subset once, by
\* descending total count over all priorities; nothing is said of the order
\* of assignees with equal totals.
C14_DescendingTotals ==
  assignees_open_order # Unset =>
    /\ {C14_Order[i] : i \in 1..Len(C14_Order)} = C14_Assignees
    /\ Len(C14_Order) = Cardinality(C14_Assignees)
    /\ \A i, j \in 1..Len(C14_Order) :
         i < j => C14_Total(C14_Order[i]) >= C14_Total(C14_Order[j])

\* Ann, whose first row comes after Bob's, has more tickets and comes first
C14_Witness ==
  /\ data = AnnLeads
  /\ assignees_open_order = Ret(<<T(<<"A", "n", "n">>), T(<<"B", "o", "b">>)>>)

(***************************************************************************)
(* C15: the monthly trend                                                  *)
(***************************************************************************)
\* the sheets with the date column, and their rows as loaded
C15_Dated == {n \in SheetNames : "Date of the Work" \in workbook[n][1].cols}
C15_Rows(n) == workbook[n][1].rows
C15_Date(n, i) == C15_Rows(n)[i].val["Date of the Work"]

\* a date cell, a number, or a text written YYYY-MM-DD
C15_Parseable(v) ==
  v.kind \in {"date", "num"} \/ (v.kind = "str" /\ IsIsoDate(Strip(v.txt)))

\* the first day of the month of a parseable cell
C15_Month(v) ==
  IF v.kind = "num" THEN <<"1", "9", "7", "0", "-", "0", "1", "-", "0", "1">>
  ELSE SubSeq(Strip(v.txt), 1, 7) \o <<"-", "0", "1">>

C15_Trend(n) == views[<<"trend", C15_Dated>>][n]

\* C15: when the run is done, for each sheet with the date column every row
\* with a parseable date is counted in the bucket of the first day of its
\* month and only there, a row without one is counted nowhere; the loaded
\* frames are what they were, and the open and closed views drawn before are
\* those of all the rows, the rows without a date included.
C15_TrendCountsAndFrames ==
  pc.at = "done" =>
    /\ C15_Dated # {} => DOMAIN views[<<"trend", C15_Dated>>] = C15_Dated
    /\ \A n \in C15_Dated :
         /\ DOMAIN C15_Trend(n) =
              {C15_Month(C15_Date(n, i)) :
                 i \in {j \in 1..Len(C15_Rows(n)) : C15_Parseable(C15_Date(n, j))}}
         /\ \A m \in DOMAIN C15_Trend(n) :
              C15_Trend(n)[m] =
                Cardinality({i \in 1..Len(C15_Rows(n)) :
                               /\ C15_Parseable(C15_Date(n, i))
                               /\ C15_Month(C15_Date(n, i)) = m})
    /\ \A n \in SheetNames :
         /\ data_by_sheet[n] = workbook[n][1]
         /\ FilterNotClosed(data_by_sheet[n], StatusColOf(n)) =
              FilterNotClosed(workbook[n][1], StatusColOf(n))
         /\ views[<<"table", n>>] =
              FilterNotClosed(workbook[n][1], StatusColOf(n)).df.rows

\* a finished run on a workbook with the dated sheet: two rows in January
\* 2024, one in February, the number in January 1970, the empty date nowhere
C15_Witness ==
  /\ pc.at = "done"
  /\ workbook["Request"] = Ret(DatedSheet("Status"))
  /\ C15_Trend("Request")[<<"2", "0", "2", "4", "-", "0", "1", "-", "0", "1">>] = 2
  /\ Len(views[<<"table", "Request">>]) = 3

(***************************************************************************)
(* Completion view (banks page): the Bank and Address filters and the      *)
(* pies, lines 311-359                                                     *)
(***************************************************************************)
\* df.empty
FrameEmpty(df) == df.columns = <<>> \/ df.rows = <<>>

\* df[c]: the position of the column labelled c
ColumnAt(cols, c) == CHOOSE k \in 1..Len(cols) : cols[k] = c

\* df_raw[c] = to_text_series(df_raw[c]), c the column at position k
WithText(df, k) ==
  [df EXCEPT !.rows = [n \in 1..Len(df.rows) |->
                         [df.rows[n] EXCEPT !.cells[k] = ToText(@)]]]

\* lines 321-322
TextFrame(df, bank_col, addr_col) ==
  WithText(WithText(df, ColumnAt(df.columns, bank_col)), ColumnAt(df.columns, addr_col))

\* df_raw[c].dropna().unique(), c the column at position k; the multiselect
\* shows these sorted, the filter uses them as a collection
Options(df, k) == {v \in {df.rows[n].cells[k] : n \in 1..Len(df.rows)} : ~IsNA(v)}

\* lines 334-335: an empty selection means all the options
ToUse(sel, vals) == IF sel # {} THEN sel ELSE vals

\* line 337: the rows whose Bank isin banks_to_use and Address isin addrs_to_use
RowsIn(df, kb, ka, banks_to_use, addrs_to_use) ==
  [df EXCEPT !.rows = SelectSeq(@, LAMBDA r : r.cells[kb] \in banks_to_use
                                              /\ r.cells[ka] \in addrs_to_use)]

\* mutant of TaskCols: only the Bank column is left out
TaskCols_KeepsAddress(cols, bank_col, addr_col) ==
  SelectSeq(cols, LAMBDA c : c # bank_col)

\* line 344
TaskCols(cols, bank_col, addr_col) ==
  SelectSeq(cols, LAMBDA c : c \notin {bank_col, addr_col})

\* lines 351-353: int((ser.map(normalize_status_cell) == cat).sum())
CountCells(df, k, cat) ==
  Cardinality({n \in 1..Len(df.rows) : NormalizeStatusCell(df.rows[n].cells[k]) = cat})

\* lines 355-357; "..." stands for the one character U+2026
PieTitle(c) == IF Len(c) > 22 THEN SubSeq(c, 1, 21) \o <<"...">> ELSE c

\* lines 350-359 for the task column c
Pie(df, c) ==
  [column |-> c, title |-> PieTitle(Str(c)),
   done |-> CountCells(df, ColumnAt(df.columns, c), Cat_Done),
   pending |-> CountCells(df, ColumnAt(df.columns, c), Cat_Pending)]

Pies(df, task_cols) == [i \in 1..Len(task_cols) |-> Pie(df, task_cols[i])]

\* what a run with the selections bank_sel and addr_sel shows; df_text is
\* df_raw after lines 321-322
CompletionView(df_text, bank_col, addr_col, bank_sel, addr_sel, df) ==
  [kind |-> "pies", bank_col |-> bank_col, addr_col |-> addr_col,
   bank_sel |-> bank_sel, addr_sel |-> addr_sel, df_text |-> df_text, df |-> df,
   pies |-> Pies(df, TaskCols(df_text.columns, bank_col, addr_col))]

(***************************************************************************)
(* Specification SpecPies: runs of the banks page script from df_raw on,   *)
(* with the selections of the two multiselects                             *)
(***************************************************************************)
MaxBankRows == 2

BankHeaders ==
  { <<T(<<"B", "a", "n", "k">>), T(<<"A", "d", "d", "r", "e", "s", "s">>), T(<<"J", "a", "n">>), T(<<"F", "e", "b">>)>>,
    <<T(<<" ", "B", "a", "n", "c", "o", " ">>), T(<<"S", "i", "t", "e", " ", "A", "d", "d", "r", "e", "s", "s">>), T(<<"J", "a", "n", " ">>), T(<<"B", "a", "n", "k", " ", "f", "e", "e", "s">>)>>,
    <<T(<<"B", "a", "n", "k">>), T(<<"S", "i", "t", "e">>), T(<<"J", "a", "n">>), T(<<"F", "e", "b">>)>> }

\* rows of a sheet under one of the headers: Bank, Address, two task cells
BankRowPool ==
  { <<T(<<"R", "B", "C">>), T(<<"1", " ", "M", "a", "i", "n", " ", "S", "t">>), T(<<"d", "o", "n", "e">>), T(<<"p", "e", "n", "d", "i", "n", "g">>)>>,
    <<T(<<"T", "D">>), T(<<"2", " ", "E", "l", "m", " ", "S", "t">>), T(<<"P", "e", "n", "d", "i", "n", "g", " ">>), T(<<"n", "/", "a">>)>>,
    <<NaN, T(<<"1", " ", "M", "a", "i", "n", " ", "S", "t">>), T(<<"d", "o", "n", "e">>), T(<<"d", "o", "n", "e">>)>>,
    <<T(<<"R", "B", "C">>), NaN, T(<<"x">>), T(<<"C", "o", "m", "p", "l", "e", "t", "e", "d">>)>>,
    <<T(<<"T", "D">>), T(<<"1", " ", "M", "a", "i", "n", " ", "S", "t">>), NaN, T(<<"n", "o", "t", " ", "s", "c", "h", "e", "d", "u", "l", "e", "d">>)>>,
    <<T(<<" ">>), T(<<"2", " ", "E", "l", "m", " ", "S", "t">>), T(<<"T", "o", " ", "d", "o">>), NaN>> }

RECURSIVE BankBodies(_)
BankBodies(n) ==
  IF n = 0 THEN {<<>>}
  ELSE BankBodies(n - 1) \cup
       {Append(b, r) : b \in {x \in BankBodies(n - 1) : Len(x) = n - 1}, r \in BankRowPool}

InitPies ==
  /\ \E hdr \in BankHeaders, body \in BankBodies(MaxBankRows) :
       df_raw = ReadSheetWithDetectedHeader(<<hdr>> \o body, 0)
  /\ pies_view = NoView

\* lines 327-359: the two multiselects, the filter and the pies
RenderSelected(df_text, bank_col, addr_col, kb, ka) ==
  \E bank_sel \in SUBSET Options(df_text, kb), addr_sel \in SUBSET Options(df_text, ka) :
    pies_view' =
      CompletionView(df_text, bank_col, addr_col, bank_sel, addr_sel,
                     RowsIn(df_text, kb, ka, ToUse(bank_sel, Options(df_text, kb)),
                            ToUse(addr_sel, Options(df_text, ka))))

\* lines 315-322
RenderResolved(df, bank_col, addr_col) ==
  IF bank_col = PyNone \/ addr_col = PyNone
  THEN pies_view' = ErrorView("Bank or Address column not found.")
  ELSE RenderSelected(TextFrame(df, bank_col, addr_col), bank_col, addr_col,
                      ColumnAt(df.columns, bank_col), ColumnAt(df.columns, addr_col))

\* one run of the script from line 311 on; df_raw is the copy st.cache_data
\* hands out, so the sheet read stays as it was
RenderCompletion ==
  /\ IF FrameEmpty(df_raw)
     THEN pies_view' = [kind |-> "info"]
     ELSE RenderResolved(df_raw, FindRequiredCol(df_raw.columns, BANK_FALLBACKS),
                         FindRequiredCol(df_raw.columns, ADDRESS_FALLBACKS))
  /\ UNCHANGED df_raw

(***************************************************************************)
(* Specification SpecDownload: calls of download_excel_cached              *)
(* (utils/ms_graph_excel.py) while the file on SharePoint is edited and    *)
(* time passes                                                             *)
(***************************************************************************)
MaxEdits == 2
MaxClock == 4
SP_PATH == "Reports/Tickets.xlsx"
LOCAL_PATH == "cnet_reports/Tickets.xlsx"
TTLs == {1, 2}

NoCall == [kind |-> "none"]

InitDownload ==
  /\ sp_content = 0
  /\ clock = 0
  /\ tmp_file = Unset
  /\ excel_cache = <<>>
  /\ last_call = NoCall

\* the file on SharePoint is saved with new content
EditSharePoint ==
  /\ sp_content < MaxEdits
  /\ sp_content' = sp_content + 1
  /\ UNCHANGED <<clock, tmp_file, excel_cache, last_call>>

\* a second passes
Elapse ==
  /\ clock < MaxClock
  /\ clock' = clock + 1
  /\ UNCHANGED <<sp_content, tmp_file, excel_cache, last_call>>

\* seconds since the file was last downloaded, -1 if it never was
SinceDownload == IF tmp_file = Unset THEN -1 ELSE clock - tmp_file[1].written

\* @st.cache_data(show_spinner=False): no ttl and no max_entries, an entry
\* stored under the arguments is used from then on
CacheHit(key) == key \in DOMAIN excel_cache

\* the body, lines 108-119: the token or a Graph request raises, or the
\* content is written to the temp directory and the local path returned
DownloadExcel(key) ==
  \/ /\ tmp_file' = Ret([content |-> sp_content, written |-> clock])
     /\ excel_cache' = Put(excel_cache, key, [value |-> LOCAL_PATH, stored |-> clock])
     /\ last_call' = [kind |-> "returned", ttl_seconds |-> key[2], since |-> SinceDownload,
                      downloaded |-> TRUE, path |-> LOCAL_PATH]
  \/ /\ last_call' = [kind |-> "raised", ttl_seconds |-> key[2], since |-> SinceDownload,
                      downloaded |-> FALSE, path |-> "RuntimeError"]
     /\ UNCHANGED <<tmp_file, excel_cache>>

\* download_excel_cached(SP_PATH, ttl_seconds)
CallDownloadExcelCached ==
  /\ \E ttl_seconds \in TTLs :
       IF CacheHit(<<SP_PATH, ttl_seconds>>)
       THEN /\ last_call' = [kind |-> "returned", ttl_seconds |-> ttl_seconds,
                             since |-> SinceDownload, downloaded |-> FALSE,
                             path |-> excel_cache[<<SP_PATH, ttl_seconds>>].value]
            /\ UNCHANGED <<tmp_file, excel_cache>>
       ELSE DownloadExcel(<<SP_PATH, ttl_seconds>>)
  /\ UNCHANGED <<sp_content, clock>>

(***************************************************************************)
(* C16: the task columns and their done/pending pairs                      *)
(***************************************************************************)
C16_Shown == pies_view.kind = "pies"

\* the columns of the frame other than the resolved Bank and Address ones
C16_Others ==
  {c \in {df_raw.columns[k] : k \in 1..Len(df_raw.columns)} :
     c # pies_view.bank_col /\ c # pies_view.addr_col}

\* the number of filtered rows whose cell of column c classifies as cat
C16_Count(c, cat) ==
  Cardinality({n \in 1..Len(pies_view.df.rows) :
    NormalizeStatusCell(pies_view.df.rows[n].cells[ColumnAt(df_raw.columns, c)]) = cat})

\* C16: the pies are one per column of the frame other than the resolved
\* Bank and Address columns, and the pair of each is (filtered rows whose
\* cell of that column classifies as Done, filtered rows whose cell
\* classifies as Pending); Not Scheduled and null cells are in neither.
C16_TaskColumnPairs ==
  C16_Shown =>
    /\ {pies_view.pies[i].column : i \in 1..Len(pies_view.pies)} = C16_Others
    /\ Len(pies_view.pies) = Cardinality(C16_Others)
    /\ \A i \in 1..Len(pies_view.pies) :
         /\ pies_view.pies[i].done = C16_Count(pies_view.pies[i].column, Cat_Done)
         /\ pies_view.pies[i].pending = C16_Count(pies_view.pies[i].column, Cat_Pending)
         /\ pies_view.pies[i].done + pies_view.pies[i].pending
              + C16_Count(pies_view.pies[i].column, Cat_NotScheduled)
              + C16_Count(pies_view.pies[i].column, Null)
              = Len(pies_view.df.rows)

\* a run with a bank selected, two task columns with different pairs, and
\* a Not Scheduled and a null cell among the filtered rows
C16_Witness ==
  /\ C16_Shown
  /\ pies_view.bank_sel # {}
  /\ Len(pies_view.pies) = 2
  /\ pies_view.pies[1].done # pies_view.pies[2].done
  /\ pies_view.pies[1].pending # pies_view.pies[2].pending
  /\ \E i \in 1..2 : C16_Count(pies_view.pies[i].column, Cat_NotScheduled) > 0
  /\ \E i \in 1..2 : C16_Count(pies_view.pies[i].column, Null) > 0

(***************************************************************************)
(* C17: download_excel_cached and its ttl_seconds                          *)
(***************************************************************************)
\* C17: a call of download_excel_cached made once ttl_seconds have passed
\* since the file was last downloaded contacts the file store again, it
\* does not return the cached local path.
C17_RefreshesAfterTTL ==
  (last_call.kind # "none" /\ last_call.since >= last_call.ttl_seconds) =>
    (last_call.kind = "raised" \/ last_call.downloaded)

(***************************************************************************)
(* C18: the banks page with nothing selected                               *)
(***************************************************************************)
\* C18: a run with an empty Bank selection and an empty Address selection
\* keeps every row of the frame, the rows with a blank Bank or Address
\* cell too, so each pie's counts are taken over all the rows of the sheet.
C18_EmptySelectionsKeepAllRows ==
  (C16_Shown /\ pies_view.bank_sel = {} /\ pies_view.addr_sel = {}) =>
    /\ Len(pies_view.df.rows) = Len(df_raw.rows)
    /\ pies_view.df = pies_view.df_text

\* the rows a run with nothing selected leaves out are the rows with a
\* blank Bank or Address cell, and only those
C18_BlankRowsLeftOut ==
  (C16_Shown /\ pies_view.bank_sel = {} /\ pies_view.addr_sel = {}) =>
    pies_view.df.rows =
      SelectSeq(pies_view.df_text.rows,
                LAMBDA r : /\ ~IsNA(r.cells[ColumnAt(df_raw.columns, pies_view.bank_col)])
                           /\ ~IsNA(r.cells[ColumnAt(df_raw.columns, pies_view.addr_col)]))

(***************************************************************************)
(* C19: the filters and the frame they are given                           *)
(***************************************************************************)
\* the sheets a filter has been called on so far in the run
C19_Filtered ==
  {n \in DOMAIN data_by_sheet :
     \/ <<"open", n>> \in DOMAIN views
     \/ \E k \in DOMAIN views : k[1] \in {"assignees_open", "assignees_closed"} /\ n \in k[2]}

\* C19: whatever filter calls the run has made on a loaded sheet, the
\* sheet's frame is the one that was read, raw values and columns, and the
\* later calls gave what a call on the frame as read gives: the closed view
\* and the table are those of filter_closed and filter_not_closed of it.
C19_FiltersLeaveFrame ==
  \A n \in DOMAIN data_by_sheet :
    /\ data_by_sheet[n] = workbook[n][1]
    /\ <<"closed", n>> \in DOMAIN views =>
         views[<<"closed", n>>] =
           ClosedPieChart(FilterClosed(workbook[n][1], StatusColOf(n)).df)
    /\ <<"table", n>> \in DOMAIN views =>
         views[<<"table", n>>] = FilterNotClosed(workbook[n][1], StatusColOf(n)).df.rows

\* a finished run whose filters were called, for the tabs and for both
\* assignee charts, on a sheet with a raw Priority that is not its category
C19_Witness ==
  /\ pc.at = "done"
  /\ \E n \in C19_Filtered :
       /\ <<"table", n>> \in DOMAIN views
       /\ views[<<"table", n>>] # <<>>
       /\ \E k \in DOMAIN views : k[1] = "assignees_open" /\ n \in k[2]
       /\ \E k \in DOMAIN views : k[1] = "assignees_closed" /\ n \in k[2]
       /\ \E i \in 1..Len(data_by_sheet[n].rows) :
            /\ ~IsNA(NormalizePriority(data_by_sheet[n].rows[i].val["Priority"]))
            /\ NormalizePriority(data_by_sheet[n].rows[i].val["Priority"])
                 # data_by_sheet[n].rows[i].val["Priority"]

(***************************************************************************)
(* Specifications.  Each one runs one part of the program; the variables   *)
(* of the other parts stay at their idle values.                           *)
(***************************************************************************)
IdleHeader == sheet_rows = <<>> /\ scan_rows = SCAN_ROWS /\ header_row = Unset

IdleCells ==
  /\ cell = NaN /\ priority = Unset /\ status = Unset /\ assigned = Unset
  /\ bank_text = Unset /\ completion = Unset /\ blank = Unset

IdleCols == columns = <<>> /\ fallbacks = <<>> /\ found_col = Unset

IdleFilters ==
  /\ data = [cols |-> {}, rows |-> <<>>] /\ status_column = ""
  /\ df_nc = Unset /\ df_c = Unset /\ open_g = Unset /\ closed_g = Unset
  /\ assignees_open_g = Unset /\ assignees_closed_g = Unset
  /\ assignees_open_order = Unset /\ assignees_closed_order = Unset

IdlePage ==
  /\ workbook = <<>> /\ pc = [at |-> "idle", i |-> 0] /\ data_by_sheet = <<>>
  /\ views = <<>> /\ page_error = ""

IdleBanks ==
  /\ remote_file = <<>> /\ local_file = Unset /\ now = 0 /\ download_cache = Unset
  /\ names_cache = Unset /\ header_cache = <<>> /\ frame_cache = <<>>
  /\ banks_view = [kind |-> "none"]

IdlePies == df_raw = [columns |-> <<>>, rows |-> <<>>] /\ pies_view = [kind |-> "none"]

IdleDownload ==
  /\ sp_content = 0 /\ clock = 0 /\ tmp_file = Unset /\ excel_cache = <<>>
  /\ last_call = [kind |-> "none"]

NextHeader == CallDetectHeaderRow /\ UNCHANGED <<cellVars, colVars, filterVars, pageVars, banksVars, piesVars, downloadVars>>

InitSpecHeader == InitHeader /\ IdleCells /\ IdleCols /\ IdleFilters /\ IdlePage /\ IdleBanks /\ IdlePies /\ IdleDownload

SpecHeader == InitSpecHeader /\ [][NextHeader]_vars

NextCells ==
  \/ CallNormalizePriority /\ UNCHANGED <<hdrVars, colVars, filterVars, pageVars, banksVars, piesVars, downloadVars>>
  \/ CallNormalizeStatus /\ UNCHANGED <<hdrVars, colVars, filterVars, pageVars, banksVars, piesVars, downloadVars>>
  \/ CallNormalizeAssignedTo /\ UNCHANGED <<hdrVars, colVars, filterVars, pageVars, banksVars, piesVars, downloadVars>>
  \/ CallToTextSeries /\ UNCHANGED <<hdrVars, colVars, filterVars, pageVars, banksVars, piesVars, downloadVars>>
  \/ CallNormalizeStatusCell /\ UNCHANGED <<hdrVars, colVars, filterVars, pageVars, banksVars, piesVars, downloadVars>>
  \/ CallIsBlank /\ UNCHANGED <<hdrVars, colVars, filterVars, pageVars, banksVars, piesVars, downloadVars>>

InitSpecCells == InitCells /\ IdleHeader /\ IdleCols /\ IdleFilters /\ IdlePage /\ IdleBanks /\ IdlePies /\ IdleDownload

SpecCells == InitSpecCells /\ [][NextCells]_vars

NextCols == CallFindRequiredCol /\ UNCHANGED <<hdrVars, cellVars, filterVars, pageVars, banksVars, piesVars, downloadVars>>

InitSpecCols == InitCols /\ IdleHeader /\ IdleCells /\ IdleFilters /\ IdlePage /\ IdleBanks /\ IdlePies /\ IdleDownload

SpecCols == InitSpecCols /\ [][NextCols]_vars

NextFilters ==
  \/ CallFilterNotClosed /\ UNCHANGED <<hdrVars, cellVars, colVars, pageVars, banksVars, piesVars, downloadVars>>
  \/ CallFilterClosed /\ UNCHANGED <<hdrVars, cellVars, colVars, pageVars, banksVars, piesVars, downloadVars>>
  \/ CallOpenStackedChart /\ UNCHANGED <<hdrVars, cellVars, colVars, pageVars, banksVars, piesVars, downloadVars>>
  \/ CallClosedPieChart /\ UNCHANGED <<hdrVars, cellVars, colVars, pageVars, banksVars, piesVars, downloadVars>>
  \/ CallAssigneesOpen /\ UNCHANGED <<hdrVars, cellVars, colVars, pageVars, banksVars, piesVars, downloadVars>>
  \/ CallAssigneesClosed /\ UNCHANGED <<hdrVars, cellVars, colVars, pageVars, banksVars, piesVars, downloadVars>>

InitSpecFilters == InitFilters /\ IdleHeader /\ IdleCells /\ IdleCols /\ IdlePage /\ IdleBanks /\ IdlePies /\ IdleDownload

SpecFilters == InitSpecFilters /\ [][NextFilters]_vars

NextTickets ==
  \/ LoadSheet /\ UNCHANGED <<hdrVars, cellVars, colVars, filterVars, banksVars, piesVars, downloadVars>>
  \/ OpenTabSheet /\ UNCHANGED <<hdrVars, cellVars, colVars, filterVars, banksVars, piesVars, downloadVars>>
  \/ ClosedTabSheet /\ UNCHANGED <<hdrVars, cellVars, colVars, filterVars, banksVars, piesVars, downloadVars>>
  \/ TablesSheet /\ UNCHANGED <<hdrVars, cellVars, colVars, filterVars, banksVars, piesVars, downloadVars>>
  \/ AssigneesOpenTab /\ UNCHANGED <<hdrVars, cellVars, colVars, filterVars, banksVars, piesVars, downloadVars>>
  \/ AssigneesClosedTab /\ UNCHANGED <<hdrVars, cellVars, colVars, filterVars, banksVars, piesVars, downloadVars>>
  \/ TrendChart /\ UNCHANGED <<hdrVars, cellVars, colVars, filterVars, banksVars, piesVars, downloadVars>>

InitSpecTickets ==
  InitTickets /\ IdleHeader /\ IdleCells /\ IdleCols /\ IdleFilters /\ IdleBanks /\ IdlePies /\ IdleDownload

SpecTickets == InitSpecTickets /\ [][NextTickets]_vars

NextBanks ==
  \/ EditRemote /\ UNCHANGED <<hdrVars, cellVars, colVars, filterVars, pageVars, piesVars, downloadVars>>
  \/ Tick /\ UNCHANGED <<hdrVars, cellVars, colVars, filterVars, pageVars, piesVars, downloadVars>>
  \/ RunBanksPage /\ UNCHANGED <<hdrVars, cellVars, colVars, filterVars, pageVars, piesVars, downloadVars>>

InitSpecBanks ==
  InitBanks /\ IdleHeader /\ IdleCells /\ IdleCols /\ IdleFilters /\ IdlePage /\ IdlePies /\ IdleDownload

SpecBanks == InitSpecBanks /\ [][NextBanks]_vars

NextPies ==
  RenderCompletion
    /\ UNCHANGED <<hdrVars, cellVars, colVars, filterVars, pageVars, banksVars, downloadVars>>

InitSpecPies ==
  InitPies /\ IdleHeader /\ IdleCells /\ IdleCols /\ IdleFilters /\ IdlePage /\ IdleBanks
    /\ IdleDownload

SpecPies == InitSpecPies /\ [][NextPies]_vars

NextDownload ==
  \/ EditSharePoint /\ UNCHANGED <<hdrVars, cellVars, colVars, filterVars, pageVars, banksVars, piesVars>>
  \/ Elapse /\ UNCHANGED <<hdrVars, cellVars, colVars, filterVars, pageVars, banksVars, piesVars>>
  \/ CallDownloadExcelCached /\ UNCHANGED <<hdrVars, cellVars, colVars, filterVars, pageVars, banksVars, piesVars>>

InitSpecDownload ==
  InitDownload /\ IdleHeader /\ IdleCells /\ IdleCols /\ IdleFilters /\ IdlePage /\ IdleBanks
    /\ IdlePies

SpecDownload == InitSpecDownload /\ [][NextDownload]_vars

====
